---- MODULE Spec2Model ----
(***************************************************************************)
(* Verification model of the phpbb-scraper crawler.                        *)
(*                                                                         *)
(*  - SpecFetch   : forum.py fetch() with the 403 refresh-and-retry of     *)
(*                  config/session.py refresh_session_cookies()            *)
(*  - SpecRequest : lib/session_manager.py SessionManager.make_request()   *)
(*  - SpecWalk    : lib/topic.py scrape_print_view() paginated walk        *)
(*  - SpecStore   : lib/storage.py StorageManager.store() with fallback    *)
(*  - SpecEnv     : config/session.py comparing, saving and loading the    *)
(*                  DF_COOKIES string of the environment and the .env file *)
(*  - SpecLogin   : lib/session_manager.py ensure_logged_in() and          *)
(*                  perform_login()                                        *)
(*  - SpecChallenge : lib/session_manager.py handle_cloudflare_challenge() *)
(*                  under make_request() and perform_login()               *)
(*  - SpecRun     : start_session(), the crawl of lib/members.py           *)
(*                  scrape_members() and close_session()                   *)
(*  - SpecForum   : the forum topic walks of lib/forum.py and forum.py     *)
(***************************************************************************)
EXTENDS Integers, Sequences, FiniteSets, TLC

(***************************************************************************)
(* Bounds and input universes                                              *)
(***************************************************************************)
\* number of fetch() calls explored in one behaviour
MaxFetchCalls == 2

\* config/session.py:22  DEFAULT_DOMAIN
DEFAULT_DOMAIN == "www"

Urls == {"u1", "u2"}

Texts == {"page1", "page2"}

\* a Python str is a sequence of one-character strings; the cookie names and
\* values of the model
sid == <<"s", "i", "d">>

cf == <<"c", "f">>

va == <<"a">>

vb == <<"b">>

\* the DF_COOKIES values the process may start with: "", "sid=a" and
\* "sid=a; cf=a"
EnvStrings ==
  { <<>>,
    <<"s", "i", "d", "=", "a">>,
    <<"s", "i", "d", "=", "a", ";", " ", "c", "f", "=", "a">> }

\* cookie jars the challenge solver may hand back (iteration order kept)
SolverJars ==
  { <<>>,
    << [domain |-> "www", name |-> cf, value |-> vb] >>,
    << [domain |-> "cdn", name |-> cf, value |-> va] >>,
    << [domain |-> "www", name |-> sid, value |-> va],
       [domain |-> "www", name |-> cf, value |-> va] >> }

(***************************************************************************)
(* State                                                                   *)
(***************************************************************************)
VARIABLES
  \* ---- forum.py fetch / config/session.py ----
  fpc,          \* position of the fetch call: "idle", "get", "refresh", "done"
  furl,         \* url argument of the running call
  allow_retry,  \* allow_retry argument of the running (possibly recursive) call
  fcalls,       \* number of top-level fetch calls started so far
  getLog,       \* session.get calls of the running call: [url, status, text]
  solveLog,     \* solver invocations of the running call: [url, jar, ok,
                \* outcome, returned]
  fresult,      \* value returned to the caller of fetch
  cookies,      \* session.cookies (the active cookie jar)
  environ,      \* os.environ["DF_COOKIES"]
  envFile,      \* DF_COOKIES value in the .env file
  buildLog      \* what build_session did: [path, before, probed, writable]

VARIABLES
  \* ---- lib/storage.py StorageManager ----
  mode,         \* OUTPUT_MODE: "file" or "db"
  db_type,      \* DB_TYPE
  files,        \* output files: collection name -> lines appended so far
  db,           \* relational tables: table name -> committed rows
  storeLog,     \* store calls so far: [collection, rows, before, route, raised]
  spc           \* driver of the storage calls: number of calls made

VARIABLES
  \* ---- lib/topic.py scrape_print_view ----
  wpc,          \* position of the walk: "call", "loop", "done"
  start,        \* start argument
  hasStop,      \* stop is not None
  stop,         \* stop argument (meaningful when hasStop)
  step,         \* step argument
  context,      \* parent context merged into every post
  offset,       \* the cursor
  previous_signature,
  all_posts,    \* the list returned to the caller
  requested,    \* offsets requested so far, in order
  served,       \* what make_request returned for them, in order
  walkReason    \* how the loop was left

VARIABLES
  \* ---- lib/session_manager.py SessionManager ----
  page,         \* self.page is not None
  browserOpen,  \* the browser behind the page is running
  reqCount,     \* make_request calls made so far
  lastRequest   \* the last make_request call: [url, method, result]

VARIABLES
  \* ---- config/session.py: the .env file and the in-process environment ----
  envExists,    \* the .env file exists
  envOther,     \* value of a key of the .env file other than DF_COOKIES
  otherTruth,   \* the value the owner of that other key wrote last
  savePc,       \* position of _write_env_cookies: "idle", "exists", "create",
                \* "set_key", "rewrite", "done"
  saveArg,      \* its cookie_str argument
  saveBefore,   \* os.environ["DF_COOKIES"] when it was called
  saveSnap,     \* what set_key read from the file
  saveOk,       \* the last finished save wrote the file
  envLog,       \* the last comparison or load and what it returned
  envOps        \* saves, restarts and external edits so far

envVars == <<envExists, envOther, otherTruth, savePc, saveArg, saveBefore,
             saveSnap, saveOk, envLog, envOps>>

fetchVars == <<fpc, furl, allow_retry, fcalls, getLog, solveLog, fresult,
               cookies, environ, envFile, buildLog>>

storeVars == <<mode, db_type, files, db, storeLog, spc>>

walkVars == <<wpc, start, hasStop, stop, step, context, offset,
              previous_signature, all_posts, requested, served, walkReason>>

sessionVars == <<page, browserOpen, reqCount, lastRequest>>

VARIABLES
  \* ---- lib/session_manager.py ensure_logged_in / perform_login ----
  loginPc,      \* position of the call: "idle", "probe", "login", "poll", "done"
  force_login,  \* the force_login argument
  probePage,    \* what the probe found on index.php
  probeQuery,   \* how the selector queries of the probe went
  probeVerdict, \* "none", "authenticated", "not_authenticated", "error"
  loginRan,     \* perform_login was called
  waited,       \* seconds waited in the poll loop of perform_login
  stateSaved,   \* context.storage_state(path=session_file) has succeeded
  saveFailed,   \* context.storage_state has raised in the poll loop
  pollContent,  \* indicator words of the content on which the poll loop
                \* reported success
  ensureResult  \* "pending", "True", "False", "raised"

loginVars == <<loginPc, force_login, probePage, probeQuery, probeVerdict,
               loginRan, waited, stateSaved, saveFailed, pollContent,
               ensureResult>>

VARIABLES
  \* ---- lib/session_manager.py handle_cloudflare_challenge and its callers ----
  chPc,         \* "idle", "entry", "wait", "after", "done"
  chCaller,     \* "make_request" or "perform_login"
  chStatus,     \* response.status of the navigation of make_request
  chFirst,      \* the content make_request read at line 284
  chEntry,      \* the content the handler read at line 215
  chEntered,    \* the entry test of the handler saw a challenge
  chWaited,     \* the waited counter of the handler
  chLast,       \* the content of the last poll
  chReports,    \* what the handler reported: "completed", "timeout", "error"
  chResult      \* what make_request returned

challengeVars == <<chPc, chCaller, chStatus, chFirst, chEntry, chEntered,
                   chWaited, chLast, chReports, chResult>>

VARIABLES
  \* ---- a run: start_session, ensure_logged_in, the crawl, close_session ----
  runPc,        \* "new", "login", "crawl", "close", "exited"
  runStyle,     \* "with": async with SessionManager() (lib/forum.py:22);
                \* "managed": scrape_members(session=None) (lib/members.py:153)
  sessionFile,  \* what the session file holds when the run starts
  runLaunch,    \* how the browser operations of start_session went
  runStarted,   \* start_session has returned
  cookiesLoaded, \* add_cookies took the cookies of the session file
  playwrightUp, \* the automation driver is running
  runItems,     \* number of items the crawl loop has to visit
  runItem,      \* the item the crawl loop is at
  runExit,      \* "none", "normal", "interrupt", "failure", or the item
                \* outcome that ended the crawl loop
  closeCalls,   \* number of close_session calls
  closeOutcome  \* "none", "ok", "save_fails", "close_raises"

runVars == <<runPc, runStyle, sessionFile, runLaunch, runStarted, cookiesLoaded,
             playwrightUp, runItems, runItem, runExit, closeCalls, closeOutcome>>

VARIABLES
  \* ---- the walks over the topic pages of a forum ----
  fwPc,         \* "call", "loop", "done"
  fwKind,       \* "async": lib/forum.py scrape_forum_topics_async;
                \* "legacy": forum.py scrape_forum_topics
  fwLimit,      \* limit_pages, 0 for None
  fwLast,       \* index of the last page the forum really has
  fwClamps,     \* past the end the site serves the last page again (TRUE) or
                \* an empty listing (FALSE)
  fwPage,       \* the page counter of the loop
  fwStored,     \* the pages whose topics were stored, in order
  fwReason,     \* how the loop was left
  fwEvents      \* the requests and the delays of the walk, in order

forumVars == <<fwPc, fwKind, fwLimit, fwLast, fwClamps, fwPage, fwStored,
               fwReason, fwEvents>>

VARIABLES
  \* ---- member.py scrape_members: the enumeration of the member UIDs ----
  enPc,                  \* "loop", "done"
  start_uid,             \* the first UID
  stop_uid,              \* the last UID, NoStopUid for None
  current_uid,               \* the UID of the round
  consecutive_failures,  \* the fail streak of the loop
  lastRequested,         \* the greatest UID requested, start_uid - 1 at first
  lastSuccess,           \* the greatest UID whose profile was fetched,
                         \* start_uid - 1 at first
  enReason               \* how the loop was left

enumVars == <<enPc, start_uid, stop_uid, current_uid, consecutive_failures,
              lastRequested, lastSuccess, enReason>>

VARIABLE
  task          \* the entry point this run drives: "fetch", "request", "walk",
                \* "store", "env", "login", "challenge", "run", "forum",
                \* "build", "enum"

vars == <<task, fetchVars, envVars, storeVars, walkVars, sessionVars, loginVars,
          challengeVars, runVars, forumVars, enumVars>>

\* a step of one entry point leaves the state of the others alone
FetchFrame ==
  /\ task = "fetch"
  /\ UNCHANGED <<task, envVars, storeVars, walkVars, sessionVars, loginVars,
                 challengeVars, runVars, forumVars, enumVars>>
  /\ UNCHANGED buildLog

BuildFrame ==
  /\ task = "build"
  /\ UNCHANGED <<task, envVars, storeVars, walkVars, sessionVars, loginVars,
                 challengeVars, runVars, forumVars, enumVars>>
  /\ UNCHANGED <<fpc, furl, allow_retry, fcalls, getLog, solveLog, fresult>>

StoreFrame ==
  /\ task = "store"
  /\ UNCHANGED <<task, fetchVars, envVars, walkVars, sessionVars, loginVars,
                 challengeVars, runVars, forumVars, enumVars>>

WalkFrame ==
  /\ task = "walk"
  /\ UNCHANGED <<task, fetchVars, envVars, sessionVars, loginVars,
                 challengeVars, runVars, forumVars, enumVars>>

SessionFrame ==
  /\ task = "request"
  /\ UNCHANGED <<task, fetchVars, envVars, storeVars, walkVars, loginVars,
                 challengeVars, runVars, forumVars, enumVars>>

LoginFrame ==
  /\ task = "login"
  /\ UNCHANGED <<task, fetchVars, envVars, storeVars, walkVars, sessionVars,
                 challengeVars, runVars, forumVars, enumVars>>

ChallengeFrame ==
  /\ task = "challenge"
  /\ UNCHANGED <<task, fetchVars, envVars, storeVars, walkVars, sessionVars,
                 loginVars, runVars, forumVars, enumVars>>

RunFrame ==
  /\ task = "run"
  /\ UNCHANGED <<task, fetchVars, envVars, storeVars, walkVars, loginVars,
                 challengeVars, forumVars, enumVars>>
  /\ UNCHANGED <<reqCount, lastRequest>>

ForumFrame ==
  /\ task = "forum"
  /\ UNCHANGED <<task, fetchVars, envVars, storeVars, walkVars, sessionVars,
                 loginVars, challengeVars, runVars, enumVars>>

EnvFrame ==
  /\ task = "env"
  /\ UNCHANGED <<task, storeVars, walkVars, sessionVars, loginVars,
                 challengeVars, runVars, forumVars, enumVars>>
  /\ UNCHANGED <<fpc, furl, allow_retry, fcalls, getLog, solveLog, fresult, cookies,
                 buildLog>>

EnumFrame ==
  /\ task = "enum"
  /\ UNCHANGED <<task, fetchVars, envVars, storeVars, walkVars, sessionVars,
                 loginVars, challengeVars, runVars, forumVars>>

(***************************************************************************)
(* Cookie jar helpers (config/session.py)                                  *)
(***************************************************************************)
\* index of the cookie with the given domain and name, 0 when absent
JarIndex(jar, d, n) ==
  IF \E i \in 1..Len(jar) : jar[i].domain = d /\ jar[i].name = n
  THEN CHOOSE i \in 1..Len(jar) : jar[i].domain = d /\ jar[i].name = n
  ELSE 0

\* position of the last cookie of domain d, 0 when the domain is new
LastOfDomain(jar, d) ==
  IF \E i \in 1..Len(jar) : jar[i].domain = d
  THEN CHOOSE i \in 1..Len(jar) :
         /\ jar[i].domain = d
         /\ \A j \in (i+1)..Len(jar) : jar[j].domain # d
  ELSE 0

\* RequestsCookieJar.set_cookie: the jar is keyed by (domain, path, name) and
\* iterates domain by domain in insertion order
JarSet(jar, c) ==
  LET i == JarIndex(jar, c.domain, c.name)
      k == LastOfDomain(jar, c.domain)
  IN  IF i # 0 THEN [jar EXCEPT ![i] = c]
      ELSE IF k = 0 THEN Append(jar, c)
      ELSE SubSeq(jar, 1, k) \o <<c>> \o SubSeq(jar, k+1, Len(jar))

RECURSIVE JarUpdate(_, _)
JarUpdate(jar, other) ==
  IF other = <<>> THEN jar
  ELSE JarUpdate(JarSet(jar, Head(other)), Tail(other))

\* a merge that leaves the session jar as it was
MergeKeepsOld(s_cookies, jar) == s_cookies

_merge_cookies_to_session(s_cookies, jar) == JarUpdate(s_cookies, jar)

\* str.strip() restricted to blanks
RECURSIVE LStrip(_)
LStrip(str) ==
  IF str # <<>> /\ Head(str) = " " THEN LStrip(Tail(str)) ELSE str

RECURSIVE RStrip(_)
RStrip(str) ==
  IF str # <<>> /\ str[Len(str)] = " "
  THEN RStrip(SubSeq(str, 1, Len(str) - 1))
  ELSE str

Strip(str) == RStrip(LStrip(str))

\* str.find(ch) + 1: the position of the first ch, 0 when there is none
Find(str, ch) ==
  IF \E i \in 1..Len(str) : str[i] = ch
  THEN CHOOSE i \in 1..Len(str) :
         str[i] = ch /\ \A j \in 1..(i-1) : str[j] # ch
  ELSE 0

\* str.split(ch)
RECURSIVE Split(_, _)
Split(str, ch) ==
  LET i == Find(str, ch)
  IN  IF i = 0 THEN <<str>>
      ELSE <<SubSeq(str, 1, i - 1)>> \o Split(SubSeq(str, i + 1, Len(str)), ch)

\* sep.join(parts)
RECURSIVE Join(_, _)
Join(parts, sep) ==
  IF parts = <<>> THEN <<>>
  ELSE IF Len(parts) = 1 THEN parts[1]
  ELSE parts[1] \o sep \o Join(Tail(parts), sep)

\* config/session.py:29-31 and 165-167: the stripped non-empty parts between
\* semicolons that contain "="
CookieParts(cookie_str) ==
  LET raw == Split(cookie_str, ";")
      stripped == [i \in 1..Len(raw) |-> Strip(raw[i])]
  IN  SelectSeq(stripped, LAMBDA p : p # <<>> /\ Find(p, "=") # 0)

\* k, v = p.split("=", 1); k.strip(), v.strip()
PartKey(p) == Strip(SubSeq(p, 1, Find(p, "=") - 1))

PartValue(p) == Strip(SubSeq(p, Find(p, "=") + 1, Len(p)))

\* jar.set(k, v, domain=default_domain) for every part, in order
RECURSIVE SetParts(_, _, _)
SetParts(jar, parts, default_domain) ==
  IF parts = <<>> THEN jar
  ELSE SetParts(JarSet(jar, [domain |-> default_domain,
                             name |-> PartKey(Head(parts)),
                             value |-> PartValue(Head(parts))]),
                Tail(parts), default_domain)

_parse_cookie_string(cookie_str, default_domain) ==
  IF cookie_str = <<>> THEN <<>>
  ELSE SetParts(<<>>, CookieParts(cookie_str), default_domain)

\* "; ".join(f"{c.name}={c.value}" for c in jar): the domains are not written
_serialize_cookie_jar(jar, default_domain) ==
  Join([i \in 1..Len(jar) |-> jar[i].name \o <<"=">> \o jar[i].value],
       <<";", " ">>)

\* config/session.py:51-53  the jar parsed from the stripped DF_COOKIES
_load_env_cookies(env_value, default_domain) ==
  _parse_cookie_string(Strip(env_value), default_domain)

\* env_map of _cookies_differ: the last part with a given name wins
EnvNames(env_cookie_str) ==
  LET parts == CookieParts(env_cookie_str)
  IN  {PartKey(parts[i]) : i \in 1..Len(parts)}

EnvGet(env_cookie_str, k) ==
  LET parts == CookieParts(env_cookie_str)
      i == CHOOSE i \in 1..Len(parts) :
             /\ PartKey(parts[i]) = k
             /\ \A j \in (i+1)..Len(parts) : PartKey(parts[j]) # k
  IN  PartValue(parts[i])

\* the comparison misses the names that only the string has
CookiesDifferOneWay(env_cookie_str, jar) ==
  \E i \in 1..Len(jar) :
     \/ jar[i].name \notin EnvNames(env_cookie_str)
     \/ EnvGet(env_cookie_str, jar[i].name) # jar[i].value

\* config/session.py:162-177
_cookies_differ(env_cookie_str, jar) ==
  \/ \E i \in 1..Len(jar) :
        \/ jar[i].name \notin EnvNames(env_cookie_str)
        \/ EnvGet(env_cookie_str, jar[i].name) # jar[i].value
  \/ \E k \in EnvNames(env_cookie_str) :
        ~ \E i \in 1..Len(jar) : jar[i].name = k

(***************************************************************************)
(* forum.py fetch                                                          *)
(***************************************************************************)
NoResult == [kind |-> "pending", text |-> ""]
NoneResult == [kind |-> "None", text |-> ""]
TextResult(t) == [kind |-> "text", text |-> t]

RaisedResult == [kind |-> "raised", text |-> ""]

\* every 403 starts another refresh
ShouldRefreshEveryTime(status, allow) == status = 403

\* forum.py:15  the 403 branch is taken only while a retry is still allowed
ShouldRefresh(status, allow) == status = 403 /\ allow

\* an exception of session.get reaches the caller
OnGetExceptionPropagates == RaisedResult

\* forum.py:29-31  any exception of session.get is caught and becomes None
OnGetException == NoneResult

\* the solver is pointed at a fixed probe url
SolveTargetProbe(failed_url) == "probe"

\* forum.py:17, config/session.py:246  the solver is run on the failing url
SolveTarget(failed_url) == failed_url

\* outcomes of one session.get: a response with a status, or an exception
GetOutcomes ==
  {[status |-> 200, text |-> t] : t \in Texts}
    \cup {[status |-> 403, text |-> "blocked"],
          [status |-> 404, text |-> "missing"],
          [status |-> 0,   text |-> "exception"]}

\* build_session has not run
NoBuild == [path |-> "none", before |-> <<>>, probed |-> <<>>, writable |-> FALSE]

FetchInit ==
  /\ fpc = "idle"
  /\ furl = "u1"
  /\ allow_retry = TRUE
  /\ fcalls = 0
  /\ getLog = <<>>
  /\ solveLog = <<>>
  /\ fresult = NoResult
  /\ environ \in EnvStrings
  /\ envFile = environ
  /\ cookies = _load_env_cookies(environ, DEFAULT_DOMAIN)
  /\ buildLog = NoBuild

\* a caller invokes fetch(url) with the default allow_retry=True
FetchCall ==
  /\ FetchFrame
  /\ fpc = "idle"
  /\ fcalls < MaxFetchCalls
  /\ \E u \in Urls : furl' = u
  /\ fcalls' = fcalls + 1
  /\ allow_retry' = TRUE
  /\ getLog' = <<>>
  /\ solveLog' = <<>>
  /\ fresult' = NoResult
  /\ fpc' = "get"
  /\ UNCHANGED <<cookies, environ, envFile>>

\* r = session.get(url) and the branches on r.status_code
FetchGet ==
  /\ FetchFrame
  /\ fpc = "get"
  /\ \E r \in GetOutcomes :
       /\ getLog' = Append(getLog, [url |-> furl, status |-> r.status, text |-> r.text])
       /\ IF r.status = 0
          THEN /\ fresult' = OnGetException
               /\ fpc' = "done"
          ELSE IF ShouldRefresh(r.status, allow_retry)
          THEN /\ fresult' = fresult
               /\ fpc' = "refresh"
          ELSE IF r.status # 200
          THEN /\ fresult' = NoneResult
               /\ fpc' = "done"
          ELSE /\ fresult' = TextResult(r.text)
               /\ fpc' = "done"
  /\ UNCHANGED <<furl, allow_retry, fcalls, solveLog, cookies, environ, envFile>>

\* the environment keeps its old value after a save
EnvironAfterSaveStale(ok, cookie_str, before) == before

\* config/session.py:70, 75  os.environ["DF_COOKIES"] = cookie_str is reached
\* only when the write before it did not raise
EnvironAfterSave(ok, cookie_str, before) == IF ok THEN cookie_str ELSE before

\* _write_env_cookies: writes the .env file and os.environ, or fails (logged)
\* leaving both as they were
WriteEnvCookies(cookie_str, writeOk) ==
  /\ envFile' = IF writeOk THEN cookie_str ELSE envFile
  /\ environ' = EnvironAfterSave(writeOk, cookie_str, environ)

\* config/session.py:206  if current_env and _cookies_differ(current_env, s.cookies)
ProbeSaves(current_env, jar) ==
  current_env # <<>> /\ _cookies_differ(current_env, jar)

\* config/session.py:225, 253  if not current_env or _cookies_differ(...)
SolveSaves(current_env, jar) ==
  current_env = <<>> \/ _cookies_differ(current_env, jar)

\* how a solver attempt goes: the library cannot be imported, the scraper
\* cannot be constructed, its request raises, or the request returns
SolverOutcomes == {"unavailable", "construct_raises", "request_raises", "ok"}

\* the exception of the solver leaves the function
OnSolverExceptionPropagates == [kind |-> "raised", jar |-> <<>>]

\* config/session.py:130-134, 157-159  log and return None
OnSolverException == [kind |-> "None", jar |-> <<>>]

\* config/session.py:125-159  the jar the solver obtained, copied, or None
_attempt_cloudscraper_refresh(outcome, jar) ==
  IF outcome = "ok" THEN [kind |-> "jar", jar |-> jar] ELSE OnSolverException

\* config/session.py:146-148  the status of the solver's own request, logged
SolverStatuses == {200, 403}

\* any jar counts as a refresh, the empty one too
RefreshReturnsForAnyJar(r) ==
  IF r.kind = "raised" THEN "raised"
  ELSE IF r.kind = "jar" THEN "True" ELSE "False"

\* config/session.py:246-262  what refresh_session_cookies returns for the
\* answer of the solver: an empty jar is falsy, as None is
RefreshReturns(r) ==
  IF r.kind = "raised" THEN "raised"
  ELSE IF r.jar # <<>> THEN "True" ELSE "False"

\* refresh_session_cookies(session, url) followed by the recursive
\* fetch(url, allow_retry=False) or by return None; an exception out of
\* refresh_session_cookies would end in the handler of fetch (forum.py:29-31)
FetchRefresh ==
  /\ FetchFrame
  /\ fpc = "refresh"
  /\ \E outcome \in SolverOutcomes, jar \in SolverJars, writeOk \in BOOLEAN,
        status \in SolverStatuses :
       LET answer  == _attempt_cloudscraper_refresh(outcome, jar)
           new_jar == answer.jar
           merged  == _merge_cookies_to_session(cookies, new_jar)
       IN  /\ solveLog' = Append(solveLog,
                                 [url |-> SolveTarget(furl), jar |-> new_jar,
                                  ok |-> new_jar # <<>>, outcome |-> outcome,
                                  status |-> IF outcome = "ok" THEN status ELSE 0,
                                  writeOk |-> writeOk,
                                  returned |-> RefreshReturns(answer)])
           /\ IF new_jar # <<>>
              THEN /\ cookies' = merged
                   /\ IF SolveSaves(environ, merged)
                      THEN WriteEnvCookies(_serialize_cookie_jar(merged, DEFAULT_DOMAIN), writeOk)
                      ELSE UNCHANGED <<envFile, environ>>
              ELSE UNCHANGED <<cookies, envFile, environ>>
           /\ IF RefreshReturns(answer) = "True"
              THEN /\ allow_retry' = FALSE
                   /\ fresult' = fresult
                   /\ fpc' = "get"
              ELSE /\ fresult' = NoneResult
                   /\ fpc' = "done"
                   /\ UNCHANGED allow_retry
  /\ UNCHANGED <<furl, fcalls, getLog>>

\* the caller takes the returned value
FetchReturn ==
  /\ FetchFrame
  /\ fpc = "done"
  /\ fpc' = "idle"
  /\ UNCHANGED <<furl, allow_retry, fcalls, getLog, solveLog, fresult,
                 cookies, environ, envFile>>

FetchNext ==
  \/ FetchCall
  \/ FetchGet
  \/ FetchRefresh
  \/ FetchReturn

(***************************************************************************)
(* config/session.py: comparing, saving and loading DF_COOKIES             *)
(***************************************************************************)
\* saves, restarts and external edits explored in one behaviour
MaxEnvOps == 3

\* DF_COOKIES values a run may find in its environment: "", "sid=a",
\* "sid=a; cf=a", "cf=a; sid=a", " sid = a ;cf=b", "sid=a; sid=b",
\* "sid=a; x" and "cf=b; sid=a"
EnvInputs ==
  { <<>>,
    <<"s", "i", "d", "=", "a">>,
    <<"s", "i", "d", "=", "a", ";", " ", "c", "f", "=", "a">>,
    <<"c", "f", "=", "a", ";", " ", "s", "i", "d", "=", "a">>,
    <<" ", "s", "i", "d", " ", "=", " ", "a", " ", ";", "c", "f", "=", "b">>,
    <<"s", "i", "d", "=", "a", ";", " ", "s", "i", "d", "=", "b">>,
    <<"s", "i", "d", "=", "a", ";", " ", "x">>,
    <<"c", "f", "=", "b", ";", " ", "s", "i", "d", "=", "a">> }

\* session jars of a run: the loaded cookies with up to two solver jars merged
JarInputs ==
  { _merge_cookies_to_session(
      _merge_cookies_to_session(_load_env_cookies(e, DEFAULT_DOMAIN), j1), j2) :
      e \in EnvStrings, j1 \in SolverJars, j2 \in SolverJars }

\* values of the other key of the .env file; "absent" when the file has no
\* such key
OtherValues == {"x", "y"}

NoEnvLog == [op |-> "none", str |-> <<>>, jar |-> <<>>, result |-> FALSE, out |-> <<>>]

\* set_key (config/session.py:74) writes the file back from what it read
RewriteOther(snap, current) == snap

EnvInit ==
  /\ fpc = "idle"
  /\ furl = "u1"
  /\ allow_retry = TRUE
  /\ fcalls = 0
  /\ getLog = <<>>
  /\ solveLog = <<>>
  /\ fresult = NoResult
  /\ buildLog = NoBuild
  /\ environ \in EnvInputs
  /\ cookies \in JarInputs
  /\ envExists \in BOOLEAN
  /\ envFile = IF envExists THEN environ ELSE <<>>
  /\ envOther = IF envExists THEN "x" ELSE "absent"
  /\ otherTruth = envOther
  /\ savePc = "idle"
  /\ saveArg = <<>>
  /\ saveBefore = <<>>
  /\ saveSnap = "absent"
  /\ saveOk = FALSE
  /\ envLog = NoEnvLog
  /\ envOps = 0

\* _cookies_differ(current_env, s.cookies)
EnvDiffer ==
  /\ EnvFrame
  /\ savePc \in {"idle", "done"}
  /\ envLog' = [op |-> "differ", str |-> environ, jar |-> cookies,
                result |-> _cookies_differ(environ, cookies), out |-> <<>>]
  /\ UNCHANGED <<environ, envFile, envExists, envOther, otherTruth, savePc,
                 saveArg, saveBefore, saveSnap, saveOk, envOps>>

\* _load_env_cookies(base_domain)
EnvLoad ==
  /\ EnvFrame
  /\ savePc \in {"idle", "done"}
  /\ envLog' = [op |-> "load", str |-> environ, jar |-> <<>>, result |-> FALSE,
                out |-> _load_env_cookies(environ, DEFAULT_DOMAIN)]
  /\ UNCHANGED <<environ, envFile, envExists, envOther, otherTruth, savePc,
                 saveArg, saveBefore, saveSnap, saveOk, envOps>>

\* _write_env_cookies(_serialize_cookie_jar(s.cookies, base_domain)) is called
SaveCall ==
  /\ EnvFrame
  /\ savePc \in {"idle", "done"}
  /\ envOps < MaxEnvOps
  /\ envOps' = envOps + 1
  /\ saveArg' = _serialize_cookie_jar(cookies, DEFAULT_DOMAIN)
  /\ saveBefore' = environ
  /\ saveOk' = FALSE
  /\ envLog' = NoEnvLog
  /\ savePc' = "exists"
  /\ UNCHANGED <<environ, envFile, envExists, envOther, otherTruth, saveSnap>>

\* config/session.py:64  if not os.path.exists(env_path)
SaveExists ==
  /\ EnvFrame
  /\ savePc = "exists"
  /\ savePc' = IF envExists THEN "set_key" ELSE "create"
  /\ UNCHANGED <<environ, envFile, envExists, envOther, otherTruth, saveArg,
                 saveBefore, saveSnap, saveOk, envLog, envOps>>

\* config/session.py:66-71  open(env_path, "w") truncates the file and the one
\* line is written, or open raises and nothing is touched
SaveCreate ==
  /\ EnvFrame
  /\ savePc = "create"
  /\ \E ok \in BOOLEAN :
       /\ saveOk' = ok
       /\ WriteEnvCookies(saveArg, ok)
       /\ envExists' = (ok \/ envExists)
       /\ envOther' = IF ok THEN "absent" ELSE envOther
  /\ savePc' = "done"
  /\ UNCHANGED <<otherTruth, saveArg, saveBefore, saveSnap, envLog, envOps>>

\* config/session.py:74  set_key reads the lines of the file, or raises
SaveSetKeyRead ==
  /\ EnvFrame
  /\ savePc = "set_key"
  /\ \E ok \in BOOLEAN :
       IF ok
       THEN /\ saveSnap' = envOther
            /\ savePc' = "rewrite"
            /\ UNCHANGED saveOk
       ELSE /\ saveOk' = FALSE
            /\ savePc' = "done"
            /\ UNCHANGED saveSnap
  /\ UNCHANGED <<environ, envFile, envExists, envOther, otherTruth, saveArg,
                 saveBefore, envLog, envOps>>

\* config/session.py:74-75  set_key puts the rewritten lines in place of the
\* file and os.environ is updated, or the write raises
SaveSetKeyWrite ==
  /\ EnvFrame
  /\ savePc = "rewrite"
  /\ \E ok \in BOOLEAN :
       /\ saveOk' = ok
       /\ WriteEnvCookies(saveArg, ok)
       /\ envExists' = (ok \/ envExists)
       /\ envOther' = IF ok THEN RewriteOther(saveSnap, envOther) ELSE envOther
  /\ savePc' = "done"
  /\ UNCHANGED <<otherTruth, saveArg, saveBefore, saveSnap, envLog, envOps>>

\* another program edits the other key of the .env file (creating the file
\* when there is none)
ExternalEdit ==
  /\ EnvFrame
  /\ envOps < MaxEnvOps
  /\ envOps' = envOps + 1
  /\ \E v \in OtherValues \ {envOther} :
       /\ envOther' = v
       /\ otherTruth' = v
  /\ envExists' = TRUE
  /\ UNCHANGED <<environ, envFile, savePc, saveArg, saveBefore, saveSnap,
                 saveOk, envLog>>

\* config/session.py:10  a new run starts and load_dotenv() takes DF_COOKIES
\* from the file
EnvRestart ==
  /\ EnvFrame
  /\ savePc \in {"idle", "done"}
  /\ envOps < MaxEnvOps
  /\ envOps' = envOps + 1
  /\ environ' = envFile
  /\ savePc' = "idle"
  /\ envLog' = NoEnvLog
  /\ UNCHANGED <<envFile, envExists, envOther, otherTruth, saveArg, saveBefore,
                 saveSnap, saveOk>>

EnvNext ==
  \/ EnvDiffer
  \/ EnvLoad
  \/ SaveCall
  \/ SaveExists
  \/ SaveCreate
  \/ SaveSetKeyRead
  \/ SaveSetKeyWrite
  \/ ExternalEdit
  \/ EnvRestart

(***************************************************************************)
(* config/session.py build_session                                         *)
(***************************************************************************)
\* config/session.py:199-214  the test request: answered 200 by a server that
\* names itself cloudflare, answered otherwise, or failed with an exception
ProbeKinds == {"ok", "other", "raises"}

BuildInit ==
  /\ fpc = "idle"
  /\ furl = "u1"
  /\ allow_retry = TRUE
  /\ fcalls = 0
  /\ getLog = <<>>
  /\ solveLog = <<>>
  /\ fresult = NoResult
  /\ environ \in EnvInputs
  /\ envFile = environ
  /\ cookies = <<>>
  /\ buildLog = NoBuild

\* config/session.py:180-235  build_session: load the cookies of the
\* environment, send the test request (the session keeps the cookies the
\* answer sets), save on a difference, or fall back to the solver
BuildSession ==
  /\ BuildFrame
  /\ buildLog = NoBuild
  /\ \E probe \in ProbeKinds, set_cookie \in SolverJars,
        outcome \in SolverOutcomes, jar \in SolverJars, writeOk \in BOOLEAN :
       LET loaded == _load_env_cookies(environ, DEFAULT_DOMAIN)
           probed == IF probe = "raises" THEN loaded
                     ELSE _merge_cookies_to_session(loaded, set_cookie)
           answer == _attempt_cloudscraper_refresh(outcome, jar)
           merged == _merge_cookies_to_session(probed, answer.jar)
       IN  IF probe = "ok"
           THEN /\ cookies' = probed
                /\ IF ProbeSaves(environ, probed)
                   THEN WriteEnvCookies(_serialize_cookie_jar(probed, DEFAULT_DOMAIN), writeOk)
                   ELSE UNCHANGED <<envFile, environ>>
                /\ buildLog' = [path |-> "probe", before |-> environ,
                                probed |-> probed, writable |-> writeOk]
           ELSE IF answer.jar # <<>>
           THEN /\ cookies' = merged
                /\ IF SolveSaves(environ, merged)
                   THEN WriteEnvCookies(_serialize_cookie_jar(merged, DEFAULT_DOMAIN), writeOk)
                   ELSE UNCHANGED <<envFile, environ>>
                /\ buildLog' = [path |-> "solver", before |-> environ,
                                probed |-> probed, writable |-> writeOk]
           ELSE /\ cookies' = probed
                /\ UNCHANGED <<envFile, environ>>
                /\ buildLog' = [path |-> "unrefreshed", before |-> environ,
                                probed |-> probed, writable |-> writeOk]

BuildNext == BuildSession

(***************************************************************************)
(* member.py scrape_members: the UIDs one after the other                  *)
(***************************************************************************)
\* stop_uid = None
NoStopUid == -1

\* member.py:53  max_failures
MaxFailures == 20

MaxStartUid == 2
MaxStopUid == 3
\* the UIDs the site is asked for in one enumeration
MaxUid == 24

\* member.py:58  `if stop_uid and current > stop_uid`: None and 0 are both
\* false
StopReached(last, uid) == last # NoStopUid /\ last # 0 /\ uid > last

\* member.py:49-55  the state before the first round
EnumInit ==
  /\ enPc = "loop"
  /\ start_uid \in 1..MaxStartUid
  /\ stop_uid \in {NoStopUid} \cup 0..MaxStopUid
  /\ current_uid = start_uid
  /\ consecutive_failures = 0
  /\ lastRequested = start_uid - 1
  /\ lastSuccess = start_uid - 1
  /\ enReason = "running"

EnumEnd(reason) ==
  /\ enPc' = "done"
  /\ enReason' = reason

\* member.py:57-77  one round of the loop.  fetch_profile_html answers the
\* page ("html") or None ("none": a status other than 200, a page of a user
\* that does not exist, a challenge page or a failed request, member.py:25-42);
\* after a fetched page parse_profile or store_data may raise ("raises"), and
\* nothing in the loop handles that.
EnumRound ==
  /\ enPc = "loop"
  /\ current_uid <= MaxUid
  /\ EnumFrame
  /\ UNCHANGED <<start_uid, stop_uid>>
  /\ IF StopReached(stop_uid, current_uid)
     THEN /\ EnumEnd("stop_uid")
          /\ UNCHANGED <<current_uid, consecutive_failures, lastRequested,
                         lastSuccess>>
     ELSE /\ lastRequested' = current_uid
          /\ \E outcome \in {"html", "none", "raises"} :
               CASE outcome = "html" ->
                      /\ lastSuccess' = current_uid
                      /\ consecutive_failures' = 0
                      /\ current_uid' = current_uid + 1
                      /\ UNCHANGED <<enPc, enReason>>
                 [] outcome = "raises" ->
                      /\ EnumEnd("exception")
                      /\ lastSuccess' = current_uid
                      /\ UNCHANGED <<current_uid, consecutive_failures>>
                 [] outcome = "none" ->
                      /\ consecutive_failures' = consecutive_failures + 1
                      /\ UNCHANGED lastSuccess
                      /\ IF consecutive_failures + 1 >= MaxFailures
                         THEN EnumEnd("max_failures") /\ UNCHANGED current_uid
                         ELSE /\ current_uid' = current_uid + 1
                              /\ UNCHANGED <<enPc, enReason>>

EnumNext == EnumRound

(***************************************************************************)
(* lib/storage.py StorageManager and the handlers of lib/db.py             *)
(***************************************************************************)
\* number of store calls explored in one behaviour of SpecStore
MaxStoreCalls == 1

\* longest batch handed to store in SpecStore
MaxBatch == 2

Collections == {"members", "forum_topics", "thread_posts", "topics_index"}

Tables == {"members", "forum_topics", "thread_posts", "scraped_data"}

Modes == {<<"file", "mysql">>, <<"db", "mysql">>, <<"db", "sqlite">>}

DbOutcomes == {"ok", "fail", "raise"}

\* the records the callers of SpecStore hand in
StoreRows ==
  { [uid |-> "1", username |-> "ann"],
    [uid |-> "2", username |-> "bob", error |-> "not found"] }

Batches == UNION {[1..n -> StoreRows] : n \in 0..MaxBatch}

\* dict.get(f): None when the key is absent
Field(r, f) == IF f \in DOMAIN r THEN r[f] ELSE "None"

\* json.dumps(row, ensure_ascii=False) + "\n": one line of a .jsonl file
JsonLine(row) == [json |-> row]

\* the file is opened for writing: what it held is lost
_store_fileTruncates(fs, collection, rows, written) ==
  [files  |-> [fs EXCEPT ![collection] = [i \in 1..written |-> JsonLine(rows[i])]],
   raised |-> written < Len(rows)]

\* lib/storage.py:41-47  written = number of lines written before the write
\* failed; written = Len(rows) is the run without an error
_store_file(fs, collection, rows, written) ==
  [files  |-> [fs EXCEPT ![collection] =
                 @ \o [i \in 1..written |-> JsonLine(rows[i])]],
   raised |-> written < Len(rows)]

\* lib/storage.py:50-54  the handler chosen for a collection
HandlerTable(collection) ==
  IF collection \in {"members", "forum_topics", "thread_posts"}
  THEN collection
  ELSE "scraped_data"

\* lib/db.py insert_members / insert_forum_topics / insert_thread_posts /
\* insert_generic_data: the tuple inserted for one record
HandlerRow(collection, r) ==
  CASE collection = "members" ->
         [uid |-> Field(r, "uid"), username |-> Field(r, "username")]
    [] collection = "forum_topics" ->
         [forum_id |-> Field(r, "forum_id"), topic_id |-> Field(r, "topic_id"),
          topic_title |-> Field(r, "topic_title"), topic_url |-> Field(r, "topic_url")]
    [] collection = "thread_posts" ->
         [forum_id |-> "None", topic_id |-> "None",
          author |-> Field(r, "author"), author_id |-> Field(r, "author_id"),
          timestamp |-> Field(r, "timestamp"), content |-> Field(r, "content")]
    [] OTHER ->
         [collection |-> collection, data |-> JsonLine(r)]

\* lib/db.py:68-70  insert_members skips the records that carry an error
HandlerTakes(collection, r) ==
  collection # "members" \/ Field(r, "error") = "None"

RECURSIVE HandlerRows(_, _)
HandlerRows(collection, rows) ==
  IF rows = <<>> THEN <<>>
  ELSE LET r == Head(rows)
           rest == HandlerRows(collection, Tail(rows))
       IN  IF HandlerTakes(collection, r)
           THEN <<HandlerRow(collection, r)>> \o rest
           ELSE rest

\* lib/storage.py:49-64  dbOut: "ok" the handler commits and returns True,
\* "fail" it returns False (no connection, or a database error rolled back),
\* "raise" it raises and the exception is caught here
_store_mysql(d, collection, rows, dbOut) ==
  [db      |-> IF dbOut = "ok"
               THEN [d EXCEPT ![HandlerTable(collection)] =
                       @ \o HandlerRows(collection, rows)]
               ELSE d,
   success |-> dbOut = "ok"]

\* the file backend is never used after a database attempt
FileAfterDbNever(success) == FALSE

\* lib/storage.py:35-37  the file backend takes the batch unless the handler
\* reported success
FileAfterDb(success) == ~success

\* lib/storage.py:29-39  StorageManager.store
StoreCall(fs, d, md, dt, collection, rows, dbOut, written) ==
  IF rows = <<>>
  THEN [files |-> fs, db |-> d, raised |-> FALSE, route |-> "noop"]
  ELSE LET viaDb == md = "db" /\ dt = "mysql"
           m     == _store_mysql(d, collection, rows, dbOut)
           f     == _store_file(fs, collection, rows, written)
       IN  IF viaDb /\ ~FileAfterDb(m.success)
           THEN [files |-> fs, db |-> m.db, raised |-> FALSE, route |-> "db"]
           ELSE [files |-> f.files, db |-> d, raised |-> f.raised,
                 route |-> IF viaDb THEN "fallback" ELSE "file"]

\* the outcomes the backends can have for one call: the database outcome only
\* matters when the database is tried, the file outcome only for a batch
StoreOutcomes(md, dt, rows) ==
  {<<o, w>> \in DbOutcomes \X (0..Len(rows)) :
      IF md = "db" /\ dt = "mysql" /\ rows # <<>>
      THEN o = "ok" => w = Len(rows)
      ELSE o = "ok"}

StoreInit ==
  /\ \E m \in Modes : mode = m[1] /\ db_type = m[2]
  /\ \E old \in {<<>>, <<JsonLine([uid |-> "0", username |-> "old"])>>} :
       files = [c \in Collections |-> old]
  /\ db = [t \in Tables |-> <<>>]
  /\ storeLog = <<>>
  /\ spc = 0

\* store_data(collection, rows) called by a scraper
Store ==
  /\ StoreFrame
  /\ spc < MaxStoreCalls
  /\ \E collection \in Collections, rows \in Batches :
       \E ow \in StoreOutcomes(mode, db_type, rows) :
         LET r == StoreCall(files, db, mode, db_type, collection, rows, ow[1], ow[2])
         IN  /\ files' = r.files
             /\ db' = r.db
             /\ storeLog' = Append(storeLog,
                    [collection |-> collection, rows |-> rows, dbOut |-> ow[1],
                     before |-> files[collection], others |-> files,
                     dbBefore |-> db, route |-> r.route,
                     raised |-> r.raised])
  /\ spc' = spc + 1
  /\ UNCHANGED <<mode, db_type>>

StoreNext == Store

(***************************************************************************)
(* lib/topic.py scrape_print_view                                          *)
(***************************************************************************)
\* requests after which the exploration of one walk is cut off
MaxRequests == 3

\* start ranges over -1..MaxStart, step over -1..MaxStep, stop over 0..MaxStop
MaxStart == 1

MaxStep == 2

MaxStop == 3

\* the value None of the integer field page_offset
NoOffset == -1

\* what parse_print_view extracts for one div.post
ParsedPosts ==
  { [author |-> "ann", author_id |-> "1", timestamp |-> "t1", content |-> "hi"],
    [author |-> "bob", author_id |-> "None", timestamp |-> "t2", content |-> "yo"] }

\* the pages a topic may show: no post, one post, or both in either order
PostLists ==
  {ps \in UNION {[1..n -> ParsedPosts] : n \in 0..Cardinality(ParsedPosts)} :
     \A i, j \in 1..Len(ps) : i # j => ps[i] # ps[j]}

\* a page of posts answered with the status of a missing page
NotFoundPage ==
  [ok |-> TRUE, status |-> 404, error_box |-> "None",
   posts |-> << [author |-> "ann", author_id |-> "1", timestamp |-> "t1",
                 content |-> "hi"] >>]

\* what make_request hands to the walk: None, or a dict with the status of
\* the response (lib/session_manager.py:291-295) whose content is a page with
\* a message box (possibly with an empty text) or a list of posts
Responses ==
  {[ok |-> FALSE, status |-> 0, error_box |-> "None", posts |-> <<>>]}
    \cup {[ok |-> TRUE, status |-> 200, error_box |-> e, posts |-> <<>>] :
             e \in {"", "no such topic"}}
    \cup {[ok |-> TRUE, status |-> 200, error_box |-> "None", posts |-> ps] :
             ps \in PostLists}

\* the same, and a page answered with another status
ResponsesAnyStatus == Responses \cup {NotFoundPage}

\* lib/topic.py:104-111  the post of ann where the author is shown without a
\* profile link, so that no author_id is extracted
UnlinkedAuthorPage ==
  [ok |-> TRUE, status |-> 200, error_box |-> "None",
   posts |-> << [author |-> "ann", author_id |-> "None", timestamp |-> "t1",
                 content |-> "hi"] >>]

\* the pages of a topic whose author names come with and without a link
ResponsesUnlinked == Responses \cup {UnlinkedAuthorPage}

\* the context scrape_topic passes for a topic without a known title
Contexts ==
  { [forum_id |-> "f1", topic_id |-> "t1", topic_title |-> "None"] }

\* lib/topic.py:94-125  (posts, error)
parse_print_view(html) ==
  IF html.error_box # "None"
  THEN [posts |-> <<>>, error |-> html.error_box]
  ELSE [posts |-> [i \in 1..Len(html.posts) |->
                     [author |-> html.posts[i].author,
                      author_id |-> html.posts[i].author_id,
                      timestamp |-> html.posts[i].timestamp,
                      content |-> html.posts[i].content,
                      forum_id |-> "None", topic_id |-> "None",
                      topic_title |-> "None", page_offset |-> NoOffset]],
        error |-> "None"]

\* lib/topic.py:143  previous_signature = None, equal to no signature
NoSignature == << <<"None">> >>

\* lib/topic.py:166
Signature(posts) ==
  [i \in 1..Len(posts) |-> <<posts[i].author, posts[i].timestamp, posts[i].content>>]

\* lib/topic.py:30-34  ThreadPost.with_context(page_offset=offset, **context)
with_context(post, off, ctx) ==
  [f \in DOMAIN post |->
     IF f = "page_offset" THEN off
     ELSE IF f \in DOMAIN ctx THEN ctx[f]
     ELSE post[f]]

\* lib/topic.py:36-47  ThreadPost.to_record drops the fields that are None
to_record(post) ==
  LET keep == {f \in DOMAIN post :
                 IF f = "page_offset" THEN post[f] # NoOffset ELSE post[f] # "None"}
  IN  [f \in keep |-> post[f]]

\* lib/topic.py:142  offset = max(0, start)
FirstOffset(s) == IF s > 0 THEN s ELSE 0

\* the hard stop lets one more offset through
PastStopLate(has, off, st) == has /\ off > st + 1

\* lib/topic.py:147  the hard stop test at the top of the loop
PastStop(has, off, st) == has /\ off > st

\* nothing is ever taken for a repeated page
IsDuplicateNever(prev, sig) == FALSE

\* lib/topic.py:167
IsDuplicate(prev, sig) == prev = sig

\* a page without posts is never a reason to stop
IsEmptyNever(posts) == FALSE

\* lib/topic.py:162
IsEmpty(posts) == posts = <<>>

\* the cursor is left where it was
AdvanceStuck(off, st) == off

\* lib/topic.py:177
Advance(off, st) == off + st

\* the walk goes on whatever the step
StepGuardOff(st) == FALSE

\* lib/topic.py:178  if step <= 0: break
StepGuard(st) == st <= 0

\* only the first post of a page is handed to storage
RowsToStoreFirstOnly(enriched) ==
  [i \in 1..(IF Len(enriched) > 1 THEN 1 ELSE Len(enriched)) |-> to_record(enriched[i])]

\* lib/topic.py:173  [post.to_record() for post in enriched]
RowsToStore(enriched) ==
  [i \in 1..Len(enriched) |-> to_record(enriched[i])]

\* lib/topic.py:172  [post.with_context(page_offset=offset, **context) for post in posts]
Enriched(posts, off, ctx) ==
  [i \in 1..Len(posts) |-> with_context(posts[i], off, ctx)]

WalkInit ==
  /\ wpc = "call"
  /\ start \in -1..MaxStart
  /\ hasStop \in BOOLEAN
  /\ stop \in 0..MaxStop
  /\ (~hasStop => stop = 0)
  /\ step \in -1..MaxStep
  /\ context \in Contexts
  /\ offset = 0
  /\ previous_signature = NoSignature
  /\ all_posts = <<>>
  /\ requested = <<>>
  /\ served = <<>>
  /\ walkReason = "running"

\* lib/topic.py:141-144
WalkBegin ==
  /\ WalkFrame
  /\ wpc = "call"
  /\ offset' = FirstOffset(start)
  /\ previous_signature' = NoSignature
  /\ all_posts' = <<>>
  /\ wpc' = "loop"
  /\ UNCHANGED <<start, hasStop, stop, step, context, requested, served, walkReason>>
  /\ UNCHANGED storeVars

WalkEnd(reason) ==
  /\ wpc' = "done"
  /\ walkReason' = reason

\* lib/topic.py:147-148
WalkStop ==
  /\ WalkFrame
  /\ wpc = "loop"
  /\ PastStop(hasStop, offset, stop)
  /\ WalkEnd("stop")
  /\ UNCHANGED <<start, hasStop, stop, step, context, offset,
                 previous_signature, all_posts, requested, served>>
  /\ UNCHANGED storeVars

\* the text of a message box is never a reason to stop
HasErrorNever(error) == FALSE

\* lib/topic.py:159  if error: a text that is neither None nor empty
HasError(error) == error \notin {"None", ""}

\* lib/topic.py:150-180  one iteration of the loop: fetch, parse, compare,
\* store, advance
WalkPageOver(answers) ==
  /\ WalkFrame
  /\ wpc = "loop"
  /\ ~PastStop(hasStop, offset, stop)
  /\ Len(requested) < MaxRequests
  /\ \E response \in answers :
       LET parsed    == parse_print_view(response)
           posts     == parsed.posts
           signature == Signature(posts)
           enriched  == Enriched(posts, offset, context)
           rows      == RowsToStore(enriched)
       IN  /\ requested' = Append(requested, offset)
           /\ served' = Append(served, response)
           /\ IF ~response.ok
              THEN /\ WalkEnd("transport")
                   /\ UNCHANGED <<offset, previous_signature, all_posts>>
                   /\ UNCHANGED storeVars
              ELSE IF HasError(parsed.error)
              THEN /\ WalkEnd("error")
                   /\ UNCHANGED <<offset, previous_signature, all_posts>>
                   /\ UNCHANGED storeVars
              ELSE IF IsEmpty(posts)
              THEN /\ WalkEnd("empty")
                   /\ UNCHANGED <<offset, previous_signature, all_posts>>
                   /\ UNCHANGED storeVars
              ELSE IF IsDuplicate(previous_signature, signature)
              THEN /\ WalkEnd("duplicate")
                   /\ UNCHANGED <<offset, previous_signature, all_posts>>
                   /\ UNCHANGED storeVars
              ELSE \E ow \in StoreOutcomes(mode, db_type, rows) :
                     LET r == StoreCall(files, db, mode, db_type, "thread_posts",
                                        rows, ow[1], ow[2])
                     IN  /\ previous_signature' = signature
                         /\ files' = r.files
                         /\ db' = r.db
                         /\ storeLog' = Append(storeLog,
                              [collection |-> "thread_posts", rows |-> rows,
                               before |-> files["thread_posts"],
                               others |-> files,
                               route |-> r.route, raised |-> r.raised])
                         /\ UNCHANGED <<mode, db_type, spc>>
                         /\ IF r.raised
                            THEN /\ WalkEnd("exception")
                                 /\ UNCHANGED <<offset, all_posts>>
                            ELSE /\ all_posts' = all_posts \o enriched
                                 /\ offset' = Advance(offset, step)
                                 /\ IF StepGuard(step)
                                    THEN WalkEnd("step")
                                    ELSE UNCHANGED <<wpc, walkReason>>
  /\ UNCHANGED <<start, hasStop, stop, step, context>>

\* a round over the pages a site answers with status 200
WalkPage == WalkPageOver(Responses)

\* a round over pages of any status
WalkPageAnyStatus == WalkPageOver(ResponsesAnyStatus)

WalkNext ==
  \/ WalkBegin
  \/ WalkStop
  \/ WalkPage

\* a round over pages with and without author links
WalkPageUnlinked == WalkPageOver(ResponsesUnlinked)

WalkNextUnlinked ==
  \/ WalkBegin
  \/ WalkStop
  \/ WalkPageUnlinked

WalkNextAnyStatus ==
  \/ WalkBegin
  \/ WalkStop
  \/ WalkPageAnyStatus

\* the storage of a walk: either back end, nothing stored yet
WalkStoreInit ==
  /\ \E m \in {<<"file", "mysql">>, <<"db", "mysql">>} : mode = m[1] /\ db_type = m[2]
  /\ files = [c \in Collections |-> <<>>]
  /\ db = [t \in Tables |-> <<>>]
  /\ storeLog = <<>>
  /\ spc = 0

(***************************************************************************)
(* lib/session_manager.py SessionManager.make_request                      *)
(***************************************************************************)
\* make_request calls explored in one behaviour of SpecRequest
MaxSessionOps == 2

Methods == {"GET", "POST"}

\* page contents: a body and the marker phrases that occur in it
PageContents ==
  { [body |-> "page1", marks |-> {}],
    [body |-> "page2", marks |-> {}],
    [body |-> "wait",  marks |-> {"Just a moment"}],
    [body |-> "wait",  marks |-> {"challenge-platform"}] }

\* outcomes of page.goto: an exception, no response object, or a response
NavOutcomes ==
  {[kind |-> "exception", status |-> 0], [kind |-> "none", status |-> 0]}
    \cup {[kind |-> "response", status |-> st] : st \in {200, 403, 404}}

\* outcomes of page.content() and of page.evaluate(): an exception or a text
ReadOutcomes ==
  {[kind |-> "exception", content |-> [body |-> "", marks |-> {}]]}
    \cup {[kind |-> "text", content |-> c] : c \in PageContents}

RequestRaised == [kind |-> "raised", content |-> [body |-> "", marks |-> {}], status |-> 0]

RequestNone == [kind |-> "None", content |-> [body |-> "", marks |-> {}], status |-> 0]

RequestDict(c, st) == [kind |-> "dict", content |-> c, status |-> st]

\* a request on a session without a page is answered with None
OnNoPageReturnsNone == RequestNone

\* lib/session_manager.py:263-264  raise RuntimeError("Session not started")
OnNoPage == RequestRaised

\* lib/session_manager.py:285
ChallengeSeen(c) ==
  c.marks \cap {"Just a moment", "cf-challenge", "challenge-platform"} # {}

\* lib/session_manager.py:261-300  nav: outcome of page.goto / page.evaluate,
\* first: page.content() after the navigation, second: page.content() after
\* handle_cloudflare_challenge (which catches its own exceptions)
make_request(pg, method, nav, first, second) ==
  IF ~pg THEN OnNoPage
  ELSE IF method = "GET"
  THEN IF nav.kind # "response" THEN RequestNone
       ELSE IF first.kind = "exception" THEN RequestNone
       ELSE IF ChallengeSeen(first.content)
       THEN IF second.kind = "exception" THEN RequestNone
            ELSE RequestDict(second.content, nav.status)
       ELSE RequestDict(first.content, nav.status)
  ELSE IF first.kind = "exception" THEN RequestNone
       ELSE RequestDict(first.content, 0)

SessionInit ==
  /\ page = FALSE
  /\ browserOpen = FALSE
  /\ reqCount = 0
  /\ lastRequest = [url |-> "u1", method |-> "GET", started |-> FALSE,
                    result |-> RequestNone, made |-> FALSE]

\* lib/session_manager.py:35-81  start_session: sets the page, or raises on
\* the way (launch failure) and leaves the manager without a page
StartSession ==
  /\ SessionFrame
  /\ ~page
  /\ \E ok \in BOOLEAN :
       /\ page' = ok
       /\ browserOpen' = ok
  /\ UNCHANGED <<reqCount, lastRequest>>

\* lib/session_manager.py:83-99  close_session: the browser is closed, the
\* page attribute is kept
CloseSession ==
  /\ SessionFrame
  /\ browserOpen
  /\ browserOpen' = FALSE
  /\ UNCHANGED <<page, reqCount, lastRequest>>

MakeRequest ==
  /\ SessionFrame
  /\ reqCount < MaxSessionOps
  /\ \E url \in Urls, method \in Methods, nav \in NavOutcomes,
        first \in ReadOutcomes, second \in ReadOutcomes :
       \* a closed browser answers every page operation with an exception
       /\ (page /\ ~browserOpen) => (nav.kind = "exception" /\ first.kind = "exception")
       /\ lastRequest' = [url |-> url, method |-> method, started |-> page,
                          result |-> make_request(page, method, nav, first, second),
                          made |-> TRUE]
  /\ reqCount' = reqCount + 1
  /\ UNCHANGED <<page, browserOpen>>

SessionNext ==
  \/ StartSession
  \/ CloseSession
  \/ MakeRequest

(***************************************************************************)
(* lib/session_manager.py ensure_logged_in and perform_login               *)
(***************************************************************************)
\* lib/session_manager.py:173  max_wait = 300
LoginMaxWait == 300

\* lib/session_manager.py:175  poll_interval = 5
LoginPollInterval == 5

\* lib/session_manager.py:139  strict_indicators
StrictIndicators == {"logout", "user control panel", "my messages"}

\* lib/session_manager.py:184-187  the indicators of the poll loop
LoginIndicators ==
  {"logout", "log out", "profile", "my messages", "user control panel",
   "welcome back"}

\* what index.php can show: a logout link, a profile link of the control
\* panel, a login form, and the strict indicators found in the lower-cased
\* content; the href of a logout link puts "logout" in the content
ProbePages ==
  {pg \in [logout_link : BOOLEAN, ucp_link : BOOLEAN, login_form : BOOLEAN,
           indicators : SUBSET StrictIndicators] :
     pg.logout_link => "logout" \in pg.indicators}

NoProbe ==
  [logout_link |-> FALSE, ucp_link |-> FALSE, login_form |-> FALSE, indicators |-> {}]

\* the two link queries of lines 118 and 124: both run, the first raises, or
\* the second raises; the form query of line 133 runs or raises
ProbeQueries ==
  [links : {"ok", "first_raises", "second_raises"}, form : {"ok", "raises"}]

\* contents the poll loop of perform_login may read
PollContents ==
  { {}, {"login"}, {"profile"}, {"login", "welcome back"},
    {"my messages", "user control panel"} }

\* lib/session_manager.py:116-130  a logout link, or a profile link, returns
\* True; an exception of a query is caught and the probe goes on
LinkFound(pg, q) ==
  \/ q.links # "first_raises" /\ pg.logout_link
  \/ q.links = "ok" /\ pg.ucp_link

\* the login form is not looked at
FormFoundNever(pg) == FALSE

\* lib/session_manager.py:133-136
FormFound(pg) == pg.login_form

\* one indicator is enough
EnoughIndicatorsOne(found) == Cardinality(found \cap StrictIndicators) >= 1

\* lib/session_manager.py:140-142
EnoughIndicators(found) == Cardinality(found \cap StrictIndicators) >= 2

\* lib/session_manager.py:113-151  the probe: "error" is an exception that
\* reaches the outer handler
Probe(pg, q) ==
  IF LinkFound(pg, q) THEN "authenticated"
  ELSE IF q.form = "raises" THEN "error"
  ELSE IF FormFound(pg) THEN "not_authenticated"
  ELSE IF EnoughIndicators(pg.indicators) THEN "authenticated"
  ELSE "not_authenticated"

\* lib/session_manager.py:184-187
LoginDetected(content) == content \cap LoginIndicators # {}

\* success is reported as soon as an indicator is seen
LoginCompleteUnsaved(detected, saved) == detected

\* lib/session_manager.py:184-191  return True is reached after
\* storage_state returned; its exception goes to the handler of line 199
LoginComplete(detected, saved) == detected /\ saved

LoginInit ==
  /\ page \in BOOLEAN
  /\ browserOpen = page
  /\ reqCount = 0
  /\ lastRequest = [url |-> "u1", method |-> "GET", started |-> FALSE,
                    result |-> RequestNone, made |-> FALSE]
  /\ loginPc = "idle"
  /\ force_login = FALSE
  /\ probePage = NoProbe
  /\ probeQuery = [links |-> "ok", form |-> "ok"]
  /\ probeVerdict = "none"
  /\ loginRan = FALSE
  /\ waited = 0
  /\ stateSaved = FALSE
  /\ saveFailed = FALSE
  /\ pollContent = {}
  /\ ensureResult = "pending"

\* lib/session_manager.py:101-107  ensure_logged_in(force_login) is called
EnsureCall ==
  /\ LoginFrame
  /\ loginPc = "idle"
  /\ ensureResult = "pending"
  /\ \E f \in BOOLEAN :
       /\ force_login' = f
       /\ IF ~page
          THEN /\ ensureResult' = "raised"
               /\ loginPc' = "done"
          ELSE /\ ensureResult' = ensureResult
               /\ loginPc' = IF f THEN "login" ELSE "probe"
  /\ UNCHANGED <<probePage, probeQuery, probeVerdict, loginRan, waited,
                 stateSaved, saveFailed, pollContent>>

\* lib/session_manager.py:108-151  the probe of index.php: it returns True or
\* False, or an exception sends the call on to perform_login
EnsureProbe ==
  /\ LoginFrame
  /\ loginPc = "probe"
  /\ \E navOk \in BOOLEAN, pg \in ProbePages, q \in ProbeQueries :
       /\ ~navOk => (pg = NoProbe /\ q = [links |-> "ok", form |-> "ok"])
       /\ probePage' = pg
       /\ probeQuery' = q
       /\ LET v == IF navOk THEN Probe(pg, q) ELSE "error"
          IN  /\ probeVerdict' = v
              /\ ensureResult' = CASE v = "authenticated" -> "True"
                                   [] v = "not_authenticated" -> "False"
                                   [] OTHER -> ensureResult
              /\ loginPc' = IF v = "error" THEN "login" ELSE "done"
  /\ UNCHANGED <<force_login, loginRan, waited, stateSaved, saveFailed,
                 pollContent>>

\* lib/session_manager.py:155-166, 208-210  perform_login is entered: the
\* navigation to the login page, which ends the call with False when it
\* raises, and the challenge wait, which catches its own exceptions
PerformLogin ==
  /\ LoginFrame
  /\ loginPc = "login"
  /\ loginRan' = TRUE
  /\ waited' = 0
  /\ \E navOk \in BOOLEAN :
       IF navOk
       THEN /\ loginPc' = "poll"
            /\ ensureResult' = ensureResult
       ELSE /\ loginPc' = "done"
            /\ ensureResult' = "False"
  /\ UNCHANGED <<force_login, probePage, probeQuery, probeVerdict, stateSaved,
                 saveFailed, pollContent>>

\* lib/session_manager.py:177-203  one round of the poll loop: the content is
\* read (or the read raises), an indicator makes the session state be saved
\* (or the save raises), and without a return the loop sleeps
LoginPoll ==
  /\ LoginFrame
  /\ loginPc = "poll"
  /\ waited < LoginMaxWait
  /\ \E readOk \in BOOLEAN, content \in PollContents, saved \in BOOLEAN :
       /\ ~readOk => (content = {} /\ ~saved)
       /\ ~LoginDetected(content) => ~saved
       /\ stateSaved' = (readOk /\ LoginDetected(content) /\ saved)
       /\ saveFailed' = (saveFailed \/ (readOk /\ LoginDetected(content) /\ ~saved))
       /\ IF readOk /\ LoginComplete(LoginDetected(content), saved)
          THEN /\ ensureResult' = "True"
               /\ loginPc' = "done"
               /\ waited' = waited
               /\ pollContent' = content
          ELSE /\ ensureResult' = ensureResult
               /\ loginPc' = "poll"
               /\ waited' = waited + LoginPollInterval
               /\ pollContent' = pollContent
  /\ UNCHANGED <<force_login, probePage, probeQuery, probeVerdict, loginRan>>

\* lib/session_manager.py:205-206  the loop ran out: return False
LoginTimeout ==
  /\ LoginFrame
  /\ loginPc = "poll"
  /\ waited >= LoginMaxWait
  /\ ensureResult' = "False"
  /\ loginPc' = "done"
  /\ UNCHANGED <<force_login, probePage, probeQuery, probeVerdict, loginRan,
                 waited, stateSaved, saveFailed, pollContent>>

LoginNext ==
  \/ EnsureCall
  \/ EnsureProbe
  \/ PerformLogin
  \/ LoginPoll
  \/ LoginTimeout

(***************************************************************************)
(* lib/session_manager.py handle_cloudflare_challenge                      *)
(***************************************************************************)
\* lib/session_manager.py:223  max_wait = 120
ChallengeMaxWait == 120

\* lib/session_manager.py:225  poll_interval = 3
ChallengePollInterval == 3

\* lib/session_manager.py:216-219  the markers of the entry test
EntryMarkers ==
  {"checking your browser", "cf-challenge", "cloudflare", "please wait",
   "verifying you are human", "just a moment"}

\* lib/session_manager.py:232-235  the markers of the test of the poll loop
ClearingMarkers ==
  {"checking your browser", "cf-challenge", "please wait", "just a moment",
   "challenge-platform"}

\* str.lower() on the marker phrases a content is written with
Lower(m) ==
  CASE m = "Just a moment" -> "just a moment"
    [] m = "Cloudflare" -> "cloudflare"
    [] OTHER -> m

\* the phrases of content.lower()
Lowered(c) == {Lower(m) : m \in c.marks}

\* contents of the live page: a forum page, the interstitial with its title
\* as served and lower-cased, a page that only loads the challenge script,
\* and a forum page served with the footer of the proxy
ChallengePages ==
  { [body |-> "page1", marks |-> {}],
    [body |-> "wait",  marks |-> {"Just a moment"}],
    [body |-> "wait",  marks |-> {"just a moment"}],
    [body |-> "wait",  marks |-> {"challenge-platform"}],
    [body |-> "page1", marks |-> {"Cloudflare"}] }

NoContent == [body |-> "", marks |-> {}]

\* outcomes of page.content(): an exception or a text
ChallengeReads ==
  {[kind |-> "exception", content |-> NoContent]}
    \cup {[kind |-> "text", content |-> c] : c \in ChallengePages}

RequestPending == [kind |-> "pending", content |-> NoContent, status |-> 0]

\* lib/session_manager.py:216-219
ChallengeDetected(c) == Lowered(c) \cap EntryMarkers # {}

\* lib/session_manager.py:232-235
ChallengePending(c) == Lowered(c) \cap ClearingMarkers # {}

\* lib/session_manager.py:227, 243
ChallengeExhausted(w) == w >= ChallengeMaxWait

\* the counter is not advanced
NextWaitedStuck(w) == w

\* lib/session_manager.py:229  waited += poll_interval
NextWaited(w) == w + ChallengePollInterval

ChallengeInit ==
  /\ chPc = "idle"
  /\ chCaller = "make_request"
  /\ chStatus = 0
  /\ chFirst = NoContent
  /\ chEntry = NoContent
  /\ chEntered = FALSE
  /\ chWaited = 0
  /\ chLast = NoContent
  /\ chReports = {}
  /\ chResult = RequestPending

\* lib/session_manager.py:166 and 263-287  the handler is called by
\* perform_login after its navigation, and by make_request when the content
\* read after the navigation passes the test of line 285; make_request
\* returns at once when there is no response or no challenge
ChallengeCall ==
  /\ ChallengeFrame
  /\ chPc = "idle"
  /\ \E caller \in {"make_request", "perform_login"}, nav \in NavOutcomes,
        first \in ChallengeReads :
       /\ chCaller' = caller
       /\ IF caller = "perform_login"
          THEN /\ nav.kind = "response" /\ nav.status = 200
               /\ first.kind = "exception"
               /\ chPc' = "entry"
               /\ UNCHANGED <<chStatus, chFirst, chResult>>
          ELSE /\ chStatus' = nav.status
               /\ chFirst' = first.content
               /\ IF nav.kind = "response" /\ first.kind = "text"
                     /\ ChallengeSeen(first.content)
                  THEN chPc' = "entry" /\ chResult' = chResult
                  ELSE /\ chPc' = "done"
                       /\ chResult' = make_request(TRUE, "GET", nav, first, first)
  /\ UNCHANGED <<chEntry, chEntered, chWaited, chLast, chReports>>

\* lib/session_manager.py:214-225, 246-247  the entry test of the handler
ChallengeEnter ==
  /\ ChallengeFrame
  /\ chPc = "entry"
  /\ \E r \in ChallengeReads :
       /\ chEntry' = r.content
       /\ IF r.kind = "exception"
          THEN /\ chReports' = chReports \cup {"error"}
               /\ chEntered' = FALSE
               /\ chPc' = "after"
          ELSE /\ chReports' = chReports
               /\ chEntered' = ChallengeDetected(r.content)
               /\ chPc' = IF ChallengeDetected(r.content) THEN "wait" ELSE "after"
  /\ chWaited' = 0
  /\ UNCHANGED <<chCaller, chStatus, chFirst, chLast, chResult>>

\* lib/session_manager.py:227-247  one round of the poll loop, with the test
\* of line 243 when the round is the last one
ChallengePoll ==
  /\ ChallengeFrame
  /\ chPc = "wait"
  /\ chWaited' = NextWaited(chWaited)
  /\ \E r \in ChallengeReads :
       /\ chLast' = r.content
       /\ IF r.kind = "exception"
          THEN /\ chReports' = chReports \cup {"error"}
               /\ chPc' = "after"
          ELSE IF ~ChallengePending(r.content)
          THEN /\ chReports' = chReports \cup {"completed"}
                      \cup (IF ChallengeExhausted(chWaited') THEN {"timeout"} ELSE {})
               /\ chPc' = "after"
          ELSE IF ChallengeExhausted(chWaited')
          THEN /\ chReports' = chReports \cup {"timeout"}
               /\ chPc' = "after"
          ELSE /\ chReports' = chReports
               /\ chPc' = "wait"
  /\ UNCHANGED <<chCaller, chStatus, chFirst, chEntry, chEntered, chResult>>

\* lib/session_manager.py:289-295  the handler has returned: make_request
\* reads the content again and returns it with the status of the response
ChallengeReturn ==
  /\ ChallengeFrame
  /\ chPc = "after"
  /\ chPc' = "done"
  /\ IF chCaller = "perform_login"
     THEN chResult' = chResult
     ELSE \E second \in ChallengeReads :
            chResult' = make_request(TRUE, "GET",
                                     [kind |-> "response", status |-> chStatus],
                                     [kind |-> "text", content |-> chFirst], second)
  /\ UNCHANGED <<chCaller, chStatus, chFirst, chEntry, chEntered, chWaited,
                 chLast, chReports>>

ChallengeNext ==
  \/ ChallengeCall
  \/ ChallengeEnter
  \/ ChallengePoll
  \/ ChallengeReturn

(***************************************************************************)
(* A run: start_session, ensure_logged_in, the crawl, close_session        *)
(***************************************************************************)
\* items (member uids, forums) the crawl loop visits at most
MaxItems == 2

\* what the session file may hold: exists and loads (open and json.load
\* succeed), the shape of the loaded value, how the test 'cookies' in
\* session_data goes, and whether add_cookies accepts the cookies handed over
SessionFiles ==
  { [name |-> "absent", exists |-> FALSE, loads |-> FALSE, shape |-> "none",
     has_key |-> "false", accepted |-> FALSE],
    [name |-> "unreadable", exists |-> TRUE, loads |-> FALSE, shape |-> "none",
     has_key |-> "false", accepted |-> FALSE],
    [name |-> "malformed", exists |-> TRUE, loads |-> FALSE, shape |-> "none",
     has_key |-> "false", accepted |-> FALSE],
    [name |-> "cookie_list", exists |-> TRUE, loads |-> TRUE, shape |-> "list",
     has_key |-> "false", accepted |-> TRUE],
    [name |-> "junk_list", exists |-> TRUE, loads |-> TRUE, shape |-> "list",
     has_key |-> "false", accepted |-> FALSE],
    [name |-> "list_with_the_word", exists |-> TRUE, loads |-> TRUE, shape |-> "list",
     has_key |-> "true", accepted |-> FALSE],
    [name |-> "state_object", exists |-> TRUE, loads |-> TRUE, shape |-> "dict",
     has_key |-> "true", accepted |-> TRUE],
    [name |-> "object_with_bad_cookies", exists |-> TRUE, loads |-> TRUE,
     shape |-> "dict", has_key |-> "true", accepted |-> FALSE],
    [name |-> "object_without_cookies", exists |-> TRUE, loads |-> TRUE,
     shape |-> "dict", has_key |-> "false", accepted |-> FALSE],
    [name |-> "number", exists |-> TRUE, loads |-> TRUE, shape |-> "scalar",
     has_key |-> "raises", accepted |-> FALSE] }

\* the browser operations of start_session: all succeed, the launch raises,
\* or new_page raises
LaunchOutcomes == {"ok", "launch_raises", "page_raises"}

\* close_session: all succeeds, storage_state raises, or browser.close raises
CloseOutcomes == {"ok", "save_fails", "close_raises"}

\* an exception while the session file is loaded leaves start_session
OnFileExceptionPropagates == "raised"

\* lib/session_manager.py:76-78  except Exception: start fresh
OnFileException == "fresh"

\* lib/session_manager.py:60-78  the session file is loaded into the context
load_session_file(f) ==
  IF ~f.exists THEN "fresh"
  ELSE IF ~f.loads \/ f.has_key = "raises" THEN OnFileException
  ELSE IF f.has_key = "true"
  THEN IF f.shape = "dict" /\ f.accepted THEN "loaded" ELSE OnFileException
  ELSE IF f.shape = "list"
  THEN IF f.accepted THEN "loaded" ELSE OnFileException
  ELSE "fresh"

\* lib/session_manager.py:35-81  start_session: what it leaves behind
start_session(launch, f) ==
  LET l == load_session_file(f)
  IN  IF launch = "launch_raises"
      THEN [page |-> FALSE, browser |-> FALSE, playwright |-> TRUE,
            loaded |-> FALSE, raised |-> TRUE]
      ELSE IF l = "raised" \/ launch = "page_raises"
      THEN [page |-> FALSE, browser |-> TRUE, playwright |-> TRUE,
            loaded |-> (l = "loaded"), raised |-> TRUE]
      ELSE [page |-> TRUE, browser |-> TRUE, playwright |-> TRUE,
            loaded |-> (l = "loaded"), raised |-> FALSE]

\* lib/forum.py:22-24 and lib/members.py:153-160  ensure_logged_in is awaited
\* inside the async with block, and before the try of scrape_members
LoginGuarded(style) == style = "with"

RunInit ==
  /\ page = FALSE
  /\ browserOpen = FALSE
  /\ reqCount = 0
  /\ lastRequest = [url |-> "u1", method |-> "GET", started |-> FALSE,
                    result |-> RequestNone, made |-> FALSE]
  /\ runPc = "new"
  /\ runStyle \in {"with", "managed"}
  /\ sessionFile \in SessionFiles
  /\ runLaunch = "ok"
  /\ runStarted = FALSE
  /\ cookiesLoaded = FALSE
  /\ playwrightUp = FALSE
  /\ runItems \in 1..MaxItems
  /\ runItem = 1
  /\ runExit = "none"
  /\ closeCalls = 0
  /\ closeOutcome = "none"

\* lib/session_manager.py:26-29, 35-81 and lib/members.py:154-155
\* start_session, called by __aenter__ or by scrape_members; when it raises
\* the run ends there: __aexit__ is not called and the try is not entered
RunStart ==
  /\ RunFrame
  /\ runPc = "new"
  /\ \E launch \in LaunchOutcomes :
       LET r == start_session(launch, sessionFile)
       IN  /\ runLaunch' = launch
           /\ page' = r.page
           /\ browserOpen' = r.browser
           /\ playwrightUp' = r.playwright
           /\ cookiesLoaded' = r.loaded
           /\ runStarted' = ~r.raised
           /\ runPc' = IF r.raised THEN "exited" ELSE "login"
           /\ runExit' = IF r.raised THEN "failure" ELSE "none"
  /\ UNCHANGED <<runStyle, sessionFile, runItems, runItem, closeCalls, closeOutcome>>

\* lib/forum.py:24 and lib/members.py:156  ensure_logged_in returns True or
\* False, or the run is interrupted while it waits for the login
RunLogin ==
  /\ RunFrame
  /\ runPc = "login"
  /\ \E o \in {"True", "False", "interrupt"} :
       IF o = "interrupt"
       THEN /\ runExit' = "interrupt"
            /\ runPc' = IF LoginGuarded(runStyle) THEN "close" ELSE "exited"
       ELSE /\ runExit' = runExit
            /\ runPc' = "crawl"
  /\ UNCHANGED <<page, browserOpen, runStyle, sessionFile, runLaunch, runStarted,
                 cookiesLoaded, playwrightUp, runItems, runItem, closeCalls,
                 closeOutcome>>

\* how the handling of one item goes: it is saved, its page cannot be
\* fetched, the parser raises, store_data raises, the backup file cannot be
\* written (lib/members.py only), or the run is interrupted
ItemOutcomes(style) ==
  {"saved", "fetch_fails", "parse_raises", "store_raises", "interrupt"}
    \cup (IF style = "managed" THEN {"backup_raises"} ELSE {})

\* lib/members.py:162-168  only a fetch that gave nothing is skipped, no
\* handler stands around parse, store and backup; lib/forum.py:234, 277  the
\* whole handling of a topic stands in try/except Exception
ItemIsolated(style, o) ==
  \/ o = "fetch_fails"
  \/ style = "with" /\ o \in {"parse_raises", "store_raises"}

\* lib/members.py:160-174 and lib/forum.py:155-157, 230-278  one round of the
\* crawl loop: the item is saved or skipped, or a failure or an interrupt ends
\* the loop; every way out of the loop leads to close_session
RunCrawl ==
  /\ RunFrame
  /\ runPc = "crawl"
  /\ IF runItem > runItems
     THEN /\ runExit' = "normal"
          /\ runPc' = "close"
          /\ runItem' = runItem
     ELSE \E o \in ItemOutcomes(runStyle) :
            IF o = "saved" \/ ItemIsolated(runStyle, o)
            THEN /\ runItem' = runItem + 1
                 /\ UNCHANGED <<runExit, runPc>>
            ELSE /\ runExit' = o
                 /\ runPc' = "close"
                 /\ runItem' = runItem
  /\ UNCHANGED <<page, browserOpen, runStyle, sessionFile, runLaunch, runStarted,
                 cookiesLoaded, playwrightUp, runItems, closeCalls, closeOutcome>>

\* lib/session_manager.py:31-33, 83-99 and lib/members.py:172-174
\* close_session: the state is saved inside a try, then the browser is
\* closed and the driver stopped; an exception of browser.close leaves
\* close_session before the driver is stopped
RunClose ==
  /\ RunFrame
  /\ runPc = "close"
  /\ \E o \in CloseOutcomes :
       /\ closeOutcome' = o
       /\ browserOpen' = (o = "close_raises")
       /\ playwrightUp' = (o = "close_raises")
  /\ closeCalls' = closeCalls + 1
  /\ runPc' = "exited"
  /\ UNCHANGED <<page, runStyle, sessionFile, runLaunch, runStarted,
                 cookiesLoaded, runItems, runItem, runExit>>

RunNext ==
  \/ RunStart
  \/ RunLogin
  \/ RunCrawl
  \/ RunClose

(***************************************************************************)
(* The walks over the topic pages of a forum (lib/forum.py, forum.py)      *)
(***************************************************************************)
\* pages a forum walk stores at most in one behaviour
MaxForumPages == 3

\* index of the last page of the largest forum
MaxForumLast == 1

\* largest limit_pages
MaxForumLimit == 2

\* an empty topic listing
NoTopics == -1

\* the listing the site serves for page p of a forum whose last page is last
ServedPage(p, last, clamps) ==
  IF p <= last THEN p ELSE IF clamps THEN last ELSE NoTopics

\* lib/parsers/forum.py:86-93  the listing links to a next page
has_next_page(pg, last) == pg < last

\* lib/forum.py:109 and forum.py:61  `if limit_pages and n >= limit_pages`
LimitReached(limit, n) == limit # 0 /\ n >= limit

\* the topics the listing pg shows
TopicsOn(pg) == pg + 1

\* lib/forum.py:155-157, 249  one request per topic of the page, one after
\* the other; the delay handed to scrape_topic_content_async is not used
TopicRequests(pg) == [i \in 1..TopicsOn(pg) |-> "request"]

ForumInit ==
  /\ fwPc = "call"
  /\ fwKind \in {"async", "legacy"}
  /\ fwLimit \in 0..MaxForumLimit
  /\ fwLast \in 0..MaxForumLast
  /\ fwClamps \in BOOLEAN
  /\ fwPage = 0
  /\ fwStored = <<>>
  /\ fwReason = "running"
  /\ fwEvents = <<>>

\* lib/forum.py:105-106 and forum.py:44-46
ForumBegin ==
  /\ ForumFrame
  /\ fwPc = "call"
  /\ fwPc' = "loop"
  /\ fwPage' = 0
  /\ fwStored' = <<>>
  /\ fwEvents' = <<>>
  /\ UNCHANGED <<fwKind, fwLimit, fwLast, fwClamps, fwReason>>

ForumEnd(reason) ==
  /\ fwPc' = "done"
  /\ fwReason' = reason

\* lib/forum.py:108-164  one round of scrape_forum_topics_async: the limit,
\* the request, the end tests, the store call, the next page
ForumAsyncPage ==
  /\ ForumFrame
  /\ fwKind = "async"
  /\ fwPc = "loop"
  /\ Len(fwStored) < MaxForumPages
  /\ IF LimitReached(fwLimit, fwPage)
     THEN ForumEnd("limit") /\ UNCHANGED <<fwPage, fwStored, fwEvents>>
     ELSE \E outcome \in {"none", "page", "store_raises"} :
            LET pg == ServedPage(fwPage, fwLast, fwClamps)
                asked == Append(fwEvents, "request")
            IN  IF outcome = "none"
                THEN /\ ForumEnd("fetch")
                     /\ fwEvents' = asked
                     /\ UNCHANGED <<fwPage, fwStored>>
                ELSE IF pg = NoTopics
                THEN /\ ForumEnd("empty")
                     /\ fwEvents' = asked
                     /\ UNCHANGED <<fwPage, fwStored>>
                ELSE IF outcome = "store_raises"
                THEN /\ ForumEnd("exception")
                     /\ fwEvents' = asked
                     /\ UNCHANGED <<fwPage, fwStored>>
                ELSE /\ fwStored' = Append(fwStored, pg)
                     /\ fwEvents' = asked \o TopicRequests(pg) \o <<"delay">>
                     /\ fwPage' = fwPage + 1
                     /\ UNCHANGED <<fwPc, fwReason>>
  /\ UNCHANGED <<fwKind, fwLimit, fwLast, fwClamps>>

\* forum.py:47-66  one round of scrape_forum_topics: the fetch, the end
\* test, the store call, the limit, the next-page test, the next offset
ForumLegacyPage ==
  /\ ForumFrame
  /\ fwKind = "legacy"
  /\ fwPc = "loop"
  /\ Len(fwStored) < MaxForumPages
  /\ \E outcome \in {"none", "page", "store_raises"} :
       LET pg == ServedPage(fwPage, fwLast, fwClamps)
           asked == Append(fwEvents, "request")
       IN  IF outcome = "none"
           THEN /\ ForumEnd("fetch")
                /\ fwEvents' = asked
                /\ UNCHANGED <<fwPage, fwStored>>
           ELSE IF pg = NoTopics
           THEN /\ ForumEnd("empty")
                /\ fwEvents' = asked
                /\ UNCHANGED <<fwPage, fwStored>>
           ELSE IF outcome = "store_raises"
           THEN /\ ForumEnd("exception")
                /\ fwEvents' = asked
                /\ UNCHANGED <<fwPage, fwStored>>
           ELSE /\ fwStored' = Append(fwStored, pg)
                /\ IF LimitReached(fwLimit, fwPage + 1)
                   THEN ForumEnd("limit") /\ fwPage' = fwPage /\ fwEvents' = asked
                   ELSE IF ~has_next_page(pg, fwLast)
                   THEN ForumEnd("last") /\ fwPage' = fwPage /\ fwEvents' = asked
                   ELSE /\ fwPage' = fwPage + 1
                        /\ fwEvents' = Append(asked, "delay")
                        /\ UNCHANGED <<fwPc, fwReason>>
  /\ UNCHANGED <<fwKind, fwLimit, fwLast, fwClamps>>

ForumNext ==
  \/ ForumBegin
  \/ ForumAsyncPage
  \/ ForumLegacyPage

(***************************************************************************)
(* Specifications                                                          *)
(***************************************************************************)
FetchQuiet ==
  /\ fpc = "idle"
  /\ furl = "u1"
  /\ allow_retry = TRUE
  /\ fcalls = 0
  /\ getLog = <<>>
  /\ solveLog = <<>>
  /\ fresult = NoResult
  /\ environ = <<>>
  /\ envFile = <<>>
  /\ cookies = <<>>
  /\ buildLog = NoBuild

EnvQuiet ==
  /\ envExists = TRUE
  /\ envOther = "x"
  /\ otherTruth = "x"
  /\ savePc = "idle"
  /\ saveArg = <<>>
  /\ saveBefore = <<>>
  /\ saveSnap = "absent"
  /\ saveOk = FALSE
  /\ envLog = NoEnvLog
  /\ envOps = 0

LoginQuiet ==
  /\ loginPc = "done"
  /\ force_login = FALSE
  /\ probePage = NoProbe
  /\ probeQuery = [links |-> "ok", form |-> "ok"]
  /\ probeVerdict = "none"
  /\ loginRan = FALSE
  /\ waited = 0
  /\ stateSaved = FALSE
  /\ saveFailed = FALSE
  /\ pollContent = {}
  /\ ensureResult = "pending"

StoreQuiet ==
  /\ mode = "file"
  /\ db_type = "mysql"
  /\ files = [c \in Collections |-> <<>>]
  /\ db = [t \in Tables |-> <<>>]
  /\ storeLog = <<>>
  /\ spc = 0

WalkQuiet ==
  /\ wpc = "done"
  /\ start = 0
  /\ hasStop = FALSE
  /\ stop = 0
  /\ step = 0
  /\ context = [forum_id |-> "f1", topic_id |-> "t1", topic_title |-> "None"]
  /\ offset = 0
  /\ previous_signature = NoSignature
  /\ all_posts = <<>>
  /\ requested = <<>>
  /\ served = <<>>
  /\ walkReason = "none"

SessionQuiet ==
  /\ page = TRUE
  /\ browserOpen = TRUE
  /\ reqCount = 0
  /\ lastRequest = [url |-> "u1", method |-> "GET", started |-> FALSE,
                    result |-> RequestNone, made |-> FALSE]

ChallengeQuiet ==
  /\ chPc = "done"
  /\ chCaller = "make_request"
  /\ chStatus = 0
  /\ chFirst = NoContent
  /\ chEntry = NoContent
  /\ chEntered = FALSE
  /\ chWaited = 0
  /\ chLast = NoContent
  /\ chReports = {}
  /\ chResult = RequestPending

RunQuiet ==
  /\ runPc = "exited"
  /\ runStyle = "with"
  /\ sessionFile = [name |-> "absent", exists |-> FALSE, loads |-> FALSE,
                    shape |-> "none", has_key |-> "false", accepted |-> FALSE]
  /\ runLaunch = "ok"
  /\ runStarted = FALSE
  /\ cookiesLoaded = FALSE
  /\ playwrightUp = FALSE
  /\ runItems = 1
  /\ runItem = 1
  /\ runExit = "none"
  /\ closeCalls = 0
  /\ closeOutcome = "none"

ForumQuiet ==
  /\ fwPc = "done"
  /\ fwKind = "async"
  /\ fwLimit = 0
  /\ fwLast = 0
  /\ fwClamps = TRUE
  /\ fwPage = 0
  /\ fwStored = <<>>
  /\ fwReason = "none"
  /\ fwEvents = <<>>

EnumQuiet ==
  /\ enPc = "done"
  /\ start_uid = 1
  /\ stop_uid = NoStopUid
  /\ current_uid = 1
  /\ consecutive_failures = 0
  /\ lastRequested = 0
  /\ lastSuccess = 0
  /\ enReason = "none"

\* the groups of variables an entry point does not own are at rest
QuietBut(own) ==
  /\ IF "fetch" \in own THEN TRUE ELSE FetchQuiet
  /\ IF "env" \in own THEN TRUE ELSE EnvQuiet
  /\ IF "store" \in own THEN TRUE ELSE StoreQuiet
  /\ IF "walk" \in own THEN TRUE ELSE WalkQuiet
  /\ IF "session" \in own THEN TRUE ELSE SessionQuiet
  /\ IF "login" \in own THEN TRUE ELSE LoginQuiet
  /\ IF "challenge" \in own THEN TRUE ELSE ChallengeQuiet
  /\ IF "run" \in own THEN TRUE ELSE RunQuiet
  /\ IF "forum" \in own THEN TRUE ELSE ForumQuiet
  /\ IF "enum" \in own THEN TRUE ELSE EnumQuiet

InitFetch == task = "fetch" /\ FetchInit /\ QuietBut({"fetch"})

InitStore == task = "store" /\ StoreInit /\ QuietBut({"store"})

InitWalk == task = "walk" /\ WalkInit /\ WalkStoreInit /\ QuietBut({"walk", "store"})

InitRequest == task = "request" /\ SessionInit /\ QuietBut({"session"})

InitEnv == task = "env" /\ EnvInit /\ QuietBut({"fetch", "env"})

InitLogin == task = "login" /\ LoginInit /\ QuietBut({"login", "session"})

InitChallenge == task = "challenge" /\ ChallengeInit /\ QuietBut({"challenge"})

InitRun == task = "run" /\ RunInit /\ QuietBut({"run", "session"})

InitForum == task = "forum" /\ ForumInit /\ QuietBut({"forum"})

InitBuild == task = "build" /\ BuildInit /\ QuietBut({"fetch"})

InitEnum == task = "enum" /\ EnumInit /\ QuietBut({"enum"})

Init ==
  \/ InitFetch \/ InitStore \/ InitWalk \/ InitRequest \/ InitEnv \/ InitLogin
  \/ InitChallenge \/ InitRun \/ InitForum \/ InitBuild \/ InitEnum

Next ==
  \/ FetchNext \/ StoreNext \/ WalkNext \/ SessionNext \/ EnvNext \/ LoginNext
  \/ ChallengeNext \/ RunNext \/ ForumNext \/ BuildNext \/ EnumNext

\* every entry point, one per behaviour
Spec == Init /\ [][Next]_vars

\* forum.py fetch
SpecFetch == InitFetch /\ [][FetchNext]_vars

\* the session built when config.session is imported
SpecBuild == InitBuild /\ [][BuildNext]_vars

\* member.py scrape_members
SpecEnum == InitEnum /\ [][EnumNext]_vars

\* StorageManager.store
SpecStore == InitStore /\ [][StoreNext]_vars

\* scrape_print_view
SpecWalk == InitWalk /\ [][WalkNext]_vars

\* SessionManager.make_request
SpecRequest == InitRequest /\ [][SessionNext]_vars

\* the two fetch layers: forum.py fetch and SessionManager.make_request
\* one ensure_logged_in call
SpecLogin == InitLogin /\ [][LoginNext]_vars

\* comparing, saving and loading the cookies of the environment
SpecEnv == InitEnv /\ [][EnvNext]_vars

\* one walk over the topic pages of a forum
SpecForum == InitForum /\ [][ForumNext]_vars

\* store calls of any caller and the store calls of a walk
SpecStorage == (InitStore \/ InitWalk) /\ [][StoreNext \/ WalkNext]_vars

\* scrape_print_view over answers of any HTTP status
SpecWalkStatus == InitWalk /\ [][WalkNextAnyStatus]_vars

\* scrape_print_view over pages with and without author links
SpecWalkAuthors == InitWalk /\ [][WalkNextUnlinked]_vars

\* the paginated walks: the pages of a thread and the topic pages of a forum
SpecPagedWalks == (InitWalk \/ InitForum) /\ [][WalkNext \/ ForumNext]_vars

\* one run of a crawl that owns its session
SpecRun == InitRun /\ [][RunNext]_vars

\* one challenge wait, under make_request or under perform_login
SpecChallenge == InitChallenge /\ [][ChallengeNext]_vars

\* the two blocking waits of the session manager; every pending step of a
\* call is taken in the end, since each page operation returns
SpecWaits ==
  /\ InitLogin \/ InitChallenge
  /\ [][LoginNext \/ ChallengeNext]_vars
  /\ WF_vars(LoginNext \/ ChallengeNext)

SpecFetchRequest == (InitFetch \/ InitRequest) /\ [][FetchNext \/ SessionNext]_vars

(***************************************************************************)
(* Properties of fetch (forum.py) and make_request                         *)
(***************************************************************************)
\* the cookie c of a solver jar is in the jar with the solver's value
HasCookie(jar, c) ==
  \E i \in 1..Len(jar) :
     jar[i].domain = c.domain /\ jar[i].name = c.name /\ jar[i].value = c.value

C2_Recovery ==
  ( /\ fpc = "done"
    /\ Len(getLog) >= 1
    /\ getLog[1].status = 403
    /\ Len(solveLog) >= 1
    /\ solveLog[1].jar # <<>> ) =>
  /\ Len(solveLog) = 1
  /\ solveLog[1].url = furl
  /\ Len(getLog) = 2
  /\ getLog[2].url = furl
  /\ \A i \in 1..Len(solveLog[1].jar) : HasCookie(cookies, solveLog[1].jar[i])
  /\ getLog[2].status = 200 => fresult = TextResult(getLog[2].text)

\* 403, solved, retried with 200, and a cookie whose value changed
C2_Witness ==
  /\ fpc = "done"
  /\ Len(getLog) = 2
  /\ getLog[1].status = 403
  /\ getLog[2].status = 200
  /\ fresult = TextResult(getLog[2].text)
  /\ solveLog[1].jar = << [domain |-> "www", name |-> cf, value |-> vb] >>
  /\ environ = <<"s", "i", "d", "=", "a", ";", " ", "c", "f", "=", "b">>

\* C3 as stated: no call of either fetch layer raises, a session that was not
\* started included.
C3_NeverRaises ==
  /\ fpc \in {"done", "idle"} => fresult.kind # "raised"
  /\ lastRequest.made => lastRequest.result.kind # "raised"

\* C3 amended: fetch never raises and returns None for an exception, for a
\* status other than 200, for a failed refresh and for a 403 on the retry;
\* make_request raises exactly when the session has no page (not started) and
\* returns None when the navigation or a content read fails.
C3_RaisesOnlyUnstarted ==
  /\ fresult.kind # "raised"
  /\ (fpc = "done" /\ getLog[Len(getLog)].status # 200) => fresult = NoneResult
  /\ (fpc = "done" /\ Len(solveLog) = 1 /\ ~solveLog[1].ok) => fresult = NoneResult
  /\ (fpc = "done" /\ fresult.kind = "text") => getLog[Len(getLog)].status = 200
  /\ lastRequest.made =>
       (lastRequest.result.kind = "raised" <=> ~lastRequest.started)

\* a started session whose request failed and was answered with None
C3_Witness ==
  /\ lastRequest.made
  /\ lastRequest.started
  /\ lastRequest.result.kind = "None"

(***************************************************************************)
(* Properties of the paginated walk                                        *)
(***************************************************************************)
\* the posts parse_print_view extracts from the i-th response of the walk
PagePosts(i) == parse_print_view(served[i]).posts

\* the i-th response is a page from which no record is extracted
YieldsZero(i) == served[i].ok /\ PagePosts(i) = <<>>

\* the records the walk hands to storage for the i-th page
PageRows(i) == RowsToStore(Enriched(PagePosts(i), requested[i], context))

\* the i-th offset of a walk that starts at max(0, start)
NthOffset(i) == FirstOffset(start) + (i - 1) * step

RECURSIVE RowsIn(_)
RowsIn(log) ==
  IF log = <<>> THEN 0 ELSE Len(Head(log).rows) + RowsIn(Tail(log))

RECURSIVE PostsIn(_)
PostsIn(n) ==
  IF n = 0 THEN 0 ELSE Len(PagePosts(n)) + PostsIn(n - 1)

\* C4: when page N is the first page that yields zero records, the walk has
\* requested exactly the pages up to N, stored the pages before it, one store
\* call each and in order, and has stopped at page N.
C4_EmptyPageStops ==
  \A n \in 1..Len(served) :
    YieldsZero(n) =>
      /\ n = Len(served)
      /\ wpc = "done"
      /\ walkReason \in {"empty", "error"}
      /\ requested = [i \in 1..n |-> NthOffset(i)]
      /\ Len(storeLog) = n - 1
      /\ \A i \in 1..(n - 1) : storeLog[i].rows = PageRows(i) /\ ~storeLog[i].raised

\* two stored pages, then a page without posts
C4_Witness ==
  /\ Len(served) = 3
  /\ YieldsZero(3)
  /\ served[3].error_box = "None"
  /\ walkReason = "empty"
  /\ Len(storeLog) = 2

\* the pages i-1 and i carry posts and the same ordered list of them
SamePosts(i) ==
  /\ served[i - 1].ok /\ served[i].ok
  /\ PagePosts(i) # <<>>
  /\ PagePosts(i) = PagePosts(i - 1)

\* C5: when two consecutive pages yield identical ordered record tuples, the
\* walk stops at the second one for the duplicate signature, stores nothing
\* for it and requests no further offset.
C5_DuplicateStops ==
  \A n \in 2..Len(served) :
    SamePosts(n) =>
      /\ n = Len(served)
      /\ wpc = "done"
      /\ walkReason = "duplicate"
      /\ Len(storeLog) = n - 1
      /\ \A i \in 1..Len(all_posts) : all_posts[i].page_offset # requested[n]

\* a page, a different page, and the second page again
C5_Witness ==
  /\ Len(served) = 3
  /\ SamePosts(3)
  /\ ~SamePosts(2)
  /\ walkReason = "duplicate"
  /\ Len(storeLog) = 2

\* the i-th page is one the walk stores: fetched, without a message, with
\* posts, and not a repetition of the page before it
Storable(i) ==
  /\ served[i].ok
  /\ parse_print_view(served[i]).error \in {"None", ""}
  /\ PagePosts(i) # <<>>
  /\ i > 1 => Signature(PagePosts(i)) # Signature(PagePosts(i - 1))

\* C6: the store calls of a walk are, in page order, exactly the records of
\* the fetched pages that are non-empty and no duplicate; the records handed
\* over (and persisted, when no store call raised) number the sum of those
\* pages' records; start=1, stop=3, step=1 over pages with 2, 1 and 0 records
\* gives 2 store calls with 3 records and ends at offset 3 on the empty page.
C6_StoreAccounting ==
  LET k == Len(storeLog)
  IN  /\ k = Cardinality({i \in 1..Len(served) : Storable(i)})
      /\ \A i \in 1..k : Storable(i) /\ storeLog[i].rows = PageRows(i)
      /\ RowsIn(storeLog) = PostsIn(k)
      /\ (\A i \in 1..k : ~storeLog[i].raised) =>
            Len(files["thread_posts"]) + Len(db["thread_posts"]) = PostsIn(k)
      /\ ( /\ start = 1 /\ hasStop /\ stop = 3 /\ step = 1
           /\ Len(served) = 3
           /\ \A i \in 1..3 : served[i].ok /\ served[i].error_box = "None"
           /\ Len(served[1].posts) = 2
           /\ Len(served[2].posts) = 1
           /\ Len(served[3].posts) = 0 ) =>
           /\ k = 2
           /\ RowsIn(storeLog) = 3
           /\ requested = <<1, 2, 3>>
           /\ wpc = "done"
           /\ walkReason = "empty"

\* the scenario of the claim, run to its end
C6_Witness ==
  /\ start = 1 /\ hasStop /\ stop = 3 /\ step = 1
  /\ Len(served) = 3
  /\ Len(served[1].posts) = 2
  /\ Len(served[2].posts) = 1
  /\ YieldsZero(3)
  /\ Len(storeLog) = 2
  /\ RowsIn(storeLog) = 3
  /\ walkReason = "empty"

C8_MonotonicCursor ==
  \A i, j \in 1..Len(requested) : i < j => requested[i] < requested[j]

\* three requests of one walk
C8_Witness ==
  /\ Len(requested) = 3
  /\ step = 2
  /\ requested[3] = requested[1] + 4

\* the bound of C9 on the number of requests; a value below 1 means no request
StopBound == (stop - start) \div step + 1

\* C9: with a hard stop no offset above stop is requested, and with step > 0
\* the walk makes at most floor((stop - start)/step) + 1 requests.
C9_HardStop ==
  hasStop =>
    /\ \A i \in 1..Len(requested) : requested[i] <= stop
    /\ step > 0 => Len(requested) <= (IF StopBound > 0 THEN StopBound ELSE 0)

\* a walk that used up its bound and left by the hard stop
C9_Witness ==
  /\ hasStop /\ step > 0
  /\ wpc = "done"
  /\ walkReason = "stop"
  /\ Len(requested) = StopBound
  /\ Len(requested) >= 2

(***************************************************************************)
(* Properties of the storage router                                        *)
(***************************************************************************)
RECURSIVE Lines(_)
Lines(rows) ==
  IF rows = <<>> THEN <<>> ELSE <<JsonLine(Head(rows))>> \o Lines(Tail(rows))

\* C10: when the database handler of a collection raises or returns failure,
\* the file backend takes the batch: unless the file write itself fails, the
\* collection's file is its previous content followed by one line per record
\* of the batch, in batch order, and no row of the batch is committed.
C10_Fallback ==
  \A n \in 1..Len(storeLog) :
    LET e == storeLog[n]
    IN  ( /\ task = "store"
          /\ n = Len(storeLog)
          /\ mode = "db" /\ db_type = "mysql"
          /\ e.rows # <<>>
          /\ e.dbOut \in {"fail", "raise"} ) =>
        /\ e.route = "fallback"
        /\ ~e.raised => files[e.collection] = e.before \o Lines(e.rows)
        /\ \A c \in Collections \ {e.collection} : files[c] = storeLog[n].others[c]
        /\ db = e.dbBefore

\* the handler for "members" raised on a batch of 2 records
C10_Witness ==
  /\ Len(storeLog) = 1
  /\ storeLog[1].collection = "members"
  /\ Len(storeLog[1].rows) = 2
  /\ storeLog[1].dbOut = "raise"
  /\ storeLog[1].route = "fallback"
  /\ Len(files["members"]) = Len(storeLog[1].before) + 2

\* the rows a store call added to a sequence that only grows
Added(now, before) == SubSeq(now, Len(before) + 1, Len(now))

\* x is an element of the sequence sq
InSeq(x, sq) == \E i \in 1..Len(sq) : sq[i] = x

\* C11: after store(collection, records) returns for a non-empty batch, every
\* record of the batch is persisted: its line was appended to the collection's
\* file, or its row was committed to the collection's table. This also holds
\* on the path where the database handler reports success.
C11_NoSilentDrop ==
  (task = "store" /\ storeLog # <<>>) =>
    LET e == storeLog[Len(storeLog)]
        t == HandlerTable(e.collection)
    IN  (e.rows # <<>> /\ ~e.raised) =>
          \A i \in 1..Len(e.rows) :
            \/ InSeq(JsonLine(e.rows[i]), Added(files[e.collection], e.before))
            \/ InSeq(HandlerRow(e.collection, e.rows[i]), Added(db[t], e.dbBefore[t]))

\* C12: store never raises: whatever the database handler and the file write
\* do, every store call returns normally, and no paginated walk is left
\* through an exception of its storage call.
C12_StoreNeverRaises ==
  /\ \A n \in 1..Len(storeLog) : ~storeLog[n].raised
  /\ walkReason # "exception"

(***************************************************************************)
(* Properties of the cookie string and of the .env file                    *)
(***************************************************************************)
\* the name/value pairs of a jar
Pairs(jar) == {<<jar[i].name, jar[i].value>> : i \in 1..Len(jar)}

\* the name/value pairs a DF_COOKIES string stands for
StringPairs(cookie_str) == Pairs(_parse_cookie_string(cookie_str, DEFAULT_DOMAIN))

\* C13: _cookies_differ(A, B) is False exactly when the string A and the jar
\* B have the same names and the same value for every name.
C13_DiffersIff ==
  envLog.op = "differ" =>
    (envLog.result = FALSE <=> StringPairs(envLog.str) = Pairs(envLog.jar))

\* "cf=a; sid=a" compared with the jar sid=a, cf=a: equal in another order
C13_Witness ==
  /\ envLog.op = "differ"
  /\ envLog.result = FALSE
  /\ envLog.str = <<"c", "f", "=", "a", ";", " ", "s", "i", "d", "=", "a">>
  /\ Len(envLog.jar) = 2
  /\ envLog.jar[1].name = sid

\* a load that follows a finished, successful save of the session jar
LoadedAfterSave == envLog.op = "load" /\ saveOk /\ savePc \in {"idle", "done"}

\* C14: serializing the session jar, saving the string and loading it again
\* gives a jar with the same names and the same value for every name.
C14_RoundTrip ==
  LoadedAfterSave => Pairs(envLog.out) = Pairs(cookies)

\* no name occurs twice in the jar
UniqueNames(jar) ==
  \A i, j \in 1..Len(jar) : i # j => jar[i].name # jar[j].name

\* the round trip of a jar in which every name occurs once
RoundTripUniqueNames ==
  (LoadedAfterSave /\ UniqueNames(cookies)) => Pairs(envLog.out) = Pairs(cookies)

\* C15: a save changes only DF_COOKIES: the other key of the .env file always
\* has the value its owner wrote last, also when that edit happens while a
\* save is running.
C15_ReadMergeWrite ==
  task = "env" => envOther = otherTruth

\* a save that runs alone keeps the other key
SaveAloneKeepsOther ==
  (task = "env" /\ envOps = 1 /\ savePc = "done") => envOther = otherTruth

\* C16: after a save that wrote the file, os.environ holds the saved string
\* and every load until the next save returns the cookies of that string;
\* after a save that failed, os.environ is what it was before the call.
C16_ViewAfterSave ==
  /\ (savePc = "done" /\ saveOk) => environ = saveArg
  /\ (savePc = "done" /\ saveOk /\ envLog.op = "load") =>
       envLog.out = _load_env_cookies(saveArg, DEFAULT_DOMAIN)
  /\ (savePc = "done" /\ ~saveOk) => environ = saveBefore

\* a load after a save that changed the value of the environment
C16_Witness ==
  /\ savePc = "done"
  /\ saveOk
  /\ saveArg # saveBefore
  /\ envLog.op = "load"
  /\ envLog.out # <<>>

(***************************************************************************)
(* Properties of ensure_logged_in and perform_login                        *)
(***************************************************************************)
\* the probe ran to a verdict of its own
ProbeDecided == probeVerdict \in {"authenticated", "not_authenticated"}

\* C17: the probe reports authenticated only if two signals are on the page:
\* a logout link together with a control-panel link, or at least 2 of the
\* textual indicators.
C17_TwoSignals ==
  probeVerdict = "authenticated" =>
    \/ probePage.logout_link /\ probePage.ucp_link
    \/ Cardinality(probePage.indicators) >= 2

\* C17 as the code has it: the probe reports authenticated only if the page
\* has a logout link, or a control-panel profile link, or no login form and
\* at least 2 textual indicators; a True of ensure_logged_in that did not come
\* from perform_login came from such a probe.
C17_ProbeRule ==
  /\ probeVerdict = "authenticated" =>
       \/ probePage.logout_link
       \/ probePage.ucp_link
       \/ ~probePage.login_form /\ Cardinality(probePage.indicators) >= 2
  /\ (ensureResult = "True" /\ ~loginRan) => probeVerdict = "authenticated"

\* authenticated through two textual indicators on a page without a link
C17_Witness ==
  /\ probeVerdict = "authenticated"
  /\ ensureResult = "True"
  /\ ~probePage.logout_link
  /\ ~probePage.ucp_link
  /\ Cardinality(probePage.indicators) = 2

C19_LoginWhenNeeded ==
  ensureResult \in {"True", "False"} =>
    (loginRan <=> (force_login \/ probeVerdict \in {"not_authenticated", "error"}))

\* perform_login runs exactly when login is forced or the probe raised
LoginOnlyForcedOrError ==
  loginRan <=> ( /\ loginPc \in {"poll", "done"}
                 /\ ensureResult # "raised"
                 /\ (force_login \/ probeVerdict = "error") )

\* C20: perform_login returns True only when storage_state has saved the
\* session; it never raises; and when the poll loop runs out it returns False
\* with the page of the session still in place.
C20_LoginOutcome ==
  /\ (loginRan /\ ensureResult = "True") => stateSaved
  /\ loginRan => ensureResult # "raised"
  /\ waited <= LoginMaxWait
  /\ (loginRan /\ loginPc = "done" /\ waited >= LoginMaxWait) =>
       (ensureResult = "False" /\ page /\ browserOpen)

\* success in a round after a round in which saving the session raised
C20_Witness ==
  /\ loginRan
  /\ ensureResult = "True"
  /\ saveFailed
  /\ stateSaved

\* the poll loop ran for all of its 300 seconds
LoginTimedOut ==
  loginRan /\ loginPc = "done" /\ waited = LoginMaxWait /\ ensureResult = "False"

\* C22: a solver attempt that fails (library unavailable, construction
\* failure, request failure) hands back no jar and raises nothing:
\* refresh_session_cookies returns False, no second request is sent and the
\* enclosing fetch returns None.
C22_SolverNeverRaises ==
  \A i \in DOMAIN solveLog :
    solveLog[i].outcome # "ok" =>
      /\ solveLog[i].jar = <<>>
      /\ solveLog[i].returned = "False"
      /\ Len(getLog) = 1
      /\ fpc \in {"done", "idle"}
      /\ fresult = NoneResult

\* fetch has returned None after a solver request that raised
C22_Witness ==
  /\ fpc = "idle"
  /\ Len(solveLog) = 1
  /\ solveLog[1].outcome = "request_raises"
  /\ fresult = NoneResult

\* the probe's view of a page that carries the given words and has neither
\* a logout or profile link nor a login form
TextPage(words) ==
  [logout_link |-> FALSE, ucp_link |-> FALSE, login_form |-> FALSE,
   indicators |-> words \cap StrictIndicators]

\* C28: a page on which the poll loop of perform_login reports a completed
\* login is a page the strict probe of ensure_logged_in judges authenticated;
\* a single keyword such as "profile" does not complete a login.
C28_SameHeuristic ==
  (loginRan /\ ensureResult = "True") =>
    Probe(TextPage(pollContent), [links |-> "ok", form |-> "ok"]) = "authenticated"

Is2xx(st) == st >= 200 /\ st < 300

\* C29: the walk stores no record taken from a response whose HTTP status is
\* outside 200..299; such a response ends the walk as a failed fetch.
C29_Non2xxIsFailure ==
  \A i \in 1..Len(served) :
    (served[i].ok /\ ~Is2xx(served[i].status)) =>
      /\ i = Len(served)
      /\ wpc = "done"
      /\ \A k \in 1..Len(all_posts) : all_posts[k].page_offset # requested[i]

\* C30: no paginated walk stores a page twice when the site serves the last
\* page again for every offset past the end: a forum walk stores every page
\* index at most once, and a thread walk is over once a page repeats the page
\* before it, with nothing stored for the repetition.
C30_WalksStopOnRepeat ==
  /\ \A i, j \in DOMAIN fwStored : i < j => fwStored[i] # fwStored[j]
  /\ \A n \in 2..Len(served) :
       SamePosts(n) => (wpc = "done" /\ Len(storeLog) < n)

(***************************************************************************)
(* Properties of the challenge wait (lib/session_manager.py)               *)
(***************************************************************************)
\* the handler has returned from a wait it entered, without an exception
WaitFinished ==
  chEntered /\ chPc \in {"after", "done"} /\ "error" \notin chReports

\* C21: every wait the challenge handler enters ends with exactly one of the
\* two outcomes reported, completion or timeout; completion is reported
\* exactly when the last poll found the markers gone, the last permitted poll
\* included, which is then not reported as a timeout.
C21_WaitOutcome ==
  WaitFinished =>
    /\ Cardinality(chReports \cap {"completed", "timeout"}) = 1
    /\ ("completed" \in chReports) <=> ~ChallengePending(chLast)

\* C25: both blocking waits are bounded and end: the challenge wait makes at
\* most 40 polls of 3 seconds, the login wait at most 60 polls of 5 seconds,
\* and every call of make_request, of the challenge handler and of
\* ensure_logged_in comes to its end.
C25_BoundedWaits ==
  /\ [](/\ chWaited % ChallengePollInterval = 0
        /\ chWaited \div ChallengePollInterval <= 40
        /\ chWaited <= ChallengeMaxWait
        /\ waited % LoginPollInterval = 0
        /\ waited \div LoginPollInterval <= 60
        /\ waited <= LoginMaxWait)
  /\ <>(chPc = "done" /\ loginPc = "done")

\* the challenge wait has used all of its 40 polls
C25_Witness ==
  /\ chPc = "after"
  /\ chWaited = ChallengeMaxWait
  /\ chReports = {"timeout"}

\* C26: when the challenge wait of make_request times out, make_request does
\* not hand the content of the interstitial to its caller as a fetched page.
C26_TimeoutIsFailure ==
  (/\ chCaller = "make_request"
   /\ chPc = "done"
   /\ chReports = {"timeout"})
    => ~(chResult.kind = "dict" /\ ChallengePending(chResult.content))

\* the contents the handler and its caller have tested so far
TestedContents == {chFirst, chEntry, chLast}

\* C27: one predicate decides everywhere whether a content is a challenge:
\* the content on which make_request calls the handler passes the entry test
\* of the handler, and on every tested content the test of make_request, the
\* entry test and the test of the poll loop give the same answer.
C27_OneDetector ==
  /\ (/\ chCaller = "make_request"
      /\ chPc \in {"wait", "after", "done"}
      /\ ChallengeSeen(chFirst)
      /\ chEntry = chFirst) => chEntered
  /\ \A c \in TestedContents :
       /\ ChallengeDetected(c) <=> ChallengePending(c)
       /\ ChallengeSeen(c) <=> ChallengeDetected(c)

(***************************************************************************)
(* Properties of a run (lib/session_manager.py, lib/members.py)            *)
(***************************************************************************)
\* C23: a run that has started its session does not end without a call of
\* close_session, however it ends (normal stop, interrupt, failure), and
\* close_session releases the browser and the driver also when saving the
\* session state fails.
C23_CloseOnEveryExit ==
  (runStarted /\ runPc = "exited") =>
    /\ closeCalls >= 1
    /\ closeOutcome \in {"ok", "save_fails"} => (~browserOpen /\ ~playwrightUp)

\* the session file holds cookies start_session can load
Loadable(f) == f.name \in {"cookie_list", "state_object"}

\* C24: when the browser operations of start_session succeed, start_session
\* returns with a page whatever the session file holds, and the cookies of the
\* file are loaded exactly when it holds a bare list of cookie objects or an
\* object with a cookies list.
C24_SessionFile ==
  (runPc # "new" /\ runLaunch = "ok") =>
    /\ runStarted
    /\ page
    /\ cookiesLoaded <=> Loadable(sessionFile)

\* a session started over a session file that is not JSON
C24_Witness ==
  /\ runStarted
  /\ page
  /\ sessionFile.name = "malformed"
  /\ ~cookiesLoaded
  /\ runPc = "login"

(***************************************************************************)
(* Parent context, isolation of items, pacing                              *)
(***************************************************************************)
\* the record r carries the forum and topic of the walk's context
CarriesContext(r) ==
  /\ Field(r, "forum_id") = context.forum_id
  /\ Field(r, "topic_id") = context.topic_id

\* C31: every record a walk hands to storage carries the parent context the
\* caller supplied (forum_id, topic_id), and that context is persisted with
\* the record in the backend that takes the batch: in the line of the file and
\* in the row of the table.
C31_ContextPersisted ==
  task = "walk" =>
    /\ \A n \in 1..Len(storeLog) : \A i \in 1..Len(storeLog[n].rows) :
         CarriesContext(storeLog[n].rows[i])
    /\ \A i \in 1..Len(files["thread_posts"]) :
         CarriesContext(files["thread_posts"][i].json)
    /\ \A i \in 1..Len(db["thread_posts"]) :
         CarriesContext(db["thread_posts"][i])

\* C35: a page with a site message block ends the walk as an empty page does:
\* it is the last page requested, its offset was requested once, nothing is
\* handed to storage for it, and the records of the earlier pages are kept in
\* the result and in the backends.
C35_ErrorPageStops ==
  \A n \in 1..Len(served) :
    (served[n].ok /\ served[n].error_box # "None") =>
      /\ n = Len(served)
      /\ wpc = "done"
      /\ walkReason = (IF served[n].error_box = "" THEN "empty" ELSE "error")
      /\ \A i \in 1..(n - 1) : requested[i] # requested[n]
      /\ Len(storeLog) = n - 1
      /\ \A i \in 1..(n - 1) : storeLog[i].rows = PageRows(i)
      /\ Len(all_posts) = PostsIn(n - 1)
      /\ \A k \in 1..Len(all_posts) : all_posts[k].page_offset # requested[n]
      /\ Len(files["thread_posts"]) + Len(db["thread_posts"]) = PostsIn(n - 1)

\* a message block on the second page, after a first page of two posts
C35_Witness ==
  /\ Len(served) = 2
  /\ Len(served[1].posts) = 2
  /\ served[2].error_box = "no such topic"
  /\ walkReason = "error"
  /\ Len(storeLog) = 1
  /\ Len(all_posts) = 2

\* C36: the walk stops for a duplicate only when the records extracted from
\* the current page equal, in order, those of the page before; two consecutive
\* pages of records that differ in an extracted field or in order are both
\* stored.
C36_NoFalsePositive ==
  \A n \in 2..Len(served) :
    /\ (n = Len(served) /\ walkReason = "duplicate") =>
          PagePosts(n) = PagePosts(n - 1)
    /\ ( /\ served[n].ok
         /\ PagePosts(n) # <<>>
         /\ PagePosts(n) # PagePosts(n - 1) ) =>
          /\ Len(storeLog) >= n
          /\ storeLog[n - 1].rows = PageRows(n - 1)
          /\ storeLog[n].rows = PageRows(n)

(***************************************************************************)
(* Properties of the two backends                                          *)
(***************************************************************************)
\* the files as the n-th store call left them
FilesAfter(n) == IF n = Len(storeLog) THEN files ELSE storeLog[n + 1].others

\* sq starts with the sequence pre
StartsWith(sq, pre) ==
  Len(pre) <= Len(sq) /\ SubSeq(sq, 1, Len(pre)) = pre

\* C37: the file backend only appends. Every store call leaves the files of
\* the other collections as they were and the lines already in the file of its
\* collection in place; a call that goes to the file adds one line per record
\* of its batch, in batch order, after them (the first lines of the batch when
\* the write fails under way), so the calls' lines follow one another in call
\* order; an empty batch and a batch the database took add nothing.
C37_AppendOnly ==
  \A n \in 1..Len(storeLog) :
    LET e     == storeLog[n]
        after == FilesAfter(n)
        now   == after[e.collection]
    IN  /\ \A c \in Collections \ {e.collection} : after[c] = e.others[c]
        /\ e.others[e.collection] = e.before
        /\ StartsWith(now, e.before)
        /\ e.route \in {"noop", "db"} => now = e.before
        /\ e.rows = <<>> => e.route = "noop"
        /\ (e.route \in {"file", "fallback"} /\ ~e.raised) =>
              now = e.before \o Lines(e.rows)
        /\ (e.route \in {"file", "fallback"} /\ e.raised) =>
              /\ Len(now) < Len(e.before) + Len(e.rows)
              /\ StartsWith(e.before \o Lines(e.rows), now)

\* a walk whose first page had two posts appends its second page after them
C37_Witness ==
  /\ task = "walk"
  /\ Len(storeLog) = 2
  /\ storeLog[1].route = "file" /\ storeLog[2].route = "file"
  /\ Len(storeLog[1].rows) = 2
  /\ ~storeLog[2].raised
  /\ files["thread_posts"] = Lines(storeLog[1].rows) \o Lines(storeLog[2].rows)

\* the i-th record of the store call e has a line among those the call added
InFileOf(e, i) ==
  InSeq(JsonLine(e.rows[i]), Added(files[e.collection], e.before))

\* the i-th record of the store call e has a row among those the call added
InTableOf(e, i) ==
  LET t == HandlerTable(e.collection)
  IN  InSeq(HandlerRow(e.collection, e.rows[i]), Added(db[t], e.dbBefore[t]))

\* C38: a batch is never persisted in both backends: when store falls back to
\* the file the database holds no row of the batch, and after a store call
\* that returned every record of its batch is in exactly one backend.
C38_ExactlyOneBackend ==
  (task = "store" /\ storeLog # <<>>) =>
    LET e == storeLog[Len(storeLog)]
    IN  /\ e.route = "fallback" => db = e.dbBefore
        /\ (e.rows # <<>> /\ ~e.raised) =>
             \A i \in 1..Len(e.rows) : InFileOf(e, i) # InTableOf(e, i)

(***************************************************************************)
(* Refreshing and persisting the cookies                                   *)
(***************************************************************************)
\* C39: refresh_session_cookies returns True exactly when the solver handed
\* back a jar with at least one cookie, whatever status the solver's own
\* request had and whether or not the cookies could be saved; fetch requests
\* the url a second time exactly when it returned True, and returns None
\* without a second request otherwise.
C39_RefreshSuccess ==
  \A i \in DOMAIN solveLog :
    LET e == solveLog[i]
    IN  /\ e.returned \in {"True", "False"}
        /\ e.returned = "True" <=> (e.outcome = "ok" /\ e.jar # <<>>)
        /\ e.returned = "True" =>
             /\ ~allow_retry
             /\ (fpc = "get" /\ Len(getLog) = 1) \/ Len(getLog) = 2
        /\ e.returned = "False" =>
             /\ Len(getLog) = 1
             /\ fpc \in {"done", "idle"}
             /\ fresult = NoneResult

\* a second request after a refresh whose solver request was answered 403 and
\* whose cookies could not be saved
C39_Witness ==
  /\ Len(solveLog) = 1
  /\ solveLog[1].returned = "True"
  /\ solveLog[1].status = 403
  /\ ~solveLog[1].writeOk
  /\ environ # _serialize_cookie_jar(cookies, DEFAULT_DOMAIN)
  /\ Len(getLog) = 2
  /\ getLog[2].url = getLog[1].url

\* build_session has returned on a path that may save, and the .env file was
\* writable
BuildReturned ==
  task = "build" /\ buildLog.path \in {"probe", "solver"} /\ buildLog.writable

\* C34: when build_session returns after a successful test request or after
\* the solver handed back cookies, the saved DF_COOKIES (in the environment
\* and in the .env file) stands for the cookies of the session, also when
\* nothing was saved before; the same holds when refresh_session_cookies
\* returns True.
C34_PersistedOnChange ==
  /\ BuildReturned =>
       /\ StringPairs(environ) = Pairs(cookies)
       /\ envFile = environ
  /\ (task = "fetch" /\ solveLog # <<>> /\ solveLog[Len(solveLog)].returned = "True"
        /\ solveLog[Len(solveLog)].writeOk) =>
       /\ StringPairs(environ) = Pairs(cookies)
       /\ envFile = environ

\* C32: a failure while one item of a batch is handled (its page cannot be
\* fetched, the parser raises, the storage call raises, the backup file cannot
\* be written) does not keep the items after it from being handled: a crawl
\* loop that was not interrupted ends only when it has been at every item.
C32_ItemIsolation ==
  ( /\ task = "run"
    /\ runStarted
    /\ runPc \in {"close", "exited"}
    /\ runExit # "interrupt" ) =>
      runItem >= runItems

\* C33: the requests of one crawl follow one another, never two at a time,
\* and between any two consecutive requests of the crawl, the requests for
\* the topics of a forum page included, the delay of the crawl elapses.
C33_PacedRequests ==
  \A i \in 1..(Len(fwEvents) - 1) :
    ~(fwEvents[i] = "request" /\ fwEvents[i + 1] = "request")

\* C40: in the enumeration of the members the fail streak always lies within
\* 0..20 and counts the UIDs requested since the last fetched profile (a
\* fetched profile sets it back to 0); no UID greater than stop_uid is ever
\* requested; and the loop is left only when 20 UIDs in a row have failed or
\* the next UID is greater than stop_uid, and no later than that.
StopGiven == stop_uid # NoStopUid

C40_StopRule ==
  task = "enum" =>
    /\ consecutive_failures \in 0..MaxFailures
    /\ enReason # "exception" =>
         consecutive_failures = lastRequested - lastSuccess
    /\ StopGiven /\ lastRequested >= start_uid => lastRequested <= stop_uid
    /\ enPc = "done" =>
         \/ consecutive_failures = MaxFailures
         \/ StopGiven /\ current_uid > stop_uid
    /\ enPc = "loop" => consecutive_failures < MaxFailures

====
